---- MODULE Spec2Model ----
(***************************************************************************)
(* Model of the ingestion endpoints of mercados-backend: the single-record *)
(* demand upsert, the demand bulk insert, the price (MDA/MTR) and the      *)
(* transfer-capacity insert-only batches, and the publication-date-guarded *)
(* real-balance and import/export batches, against the relational store.   *)
(*                                                                         *)
(* Request bodies are JSON values.  A scalar is a record [t, n, s] with    *)
(* t in {"null","int","str","absent"}; "absent" marks a key that is not in *)
(* the object.  An item of a list is [obj, f]: obj says whether the item   *)
(* is a JSON object and f maps field names to scalars.                     *)
(*                                                                         *)
(* db.session is scoped to one request (Flask-SQLAlchemy removes it when   *)
(* the application context is torn down), so only the tables and the       *)
(* store's clock persist from one request to the next.                     *)
(***************************************************************************)
EXTENDS Integers, Sequences, FiniteSets, TLC

VARIABLES
    demanda,      \* table Demanda: set of rows
    pnx,          \* tables PNDMDA, PMLMDA, PMLMTR, PNDMTR: model key -> set of rows
    capacidad,    \* table CapacidadTransferencia: set of rows
    balance,      \* table DemandaRealBalance: set of rows
    impexp,       \* table ImpExpLiquidada: set of rows
    now,          \* the store's clock (func.now()), one tick per request
    last,         \* the exchange (request, response) the client still holds
    inflight      \* per worker: the request it is serving between its
                  \* lookup and its commit, when it is serving one

vars == <<demanda, pnx, capacidad, balance, impexp, now, last, inflight>>

\* ------------------------------------------------------------------ bounds
MaxRequests == 2
MaxBatch == 2
MaxInFlight == 2

\* ------------------------------------------------------------ JSON scalars
JNull == [t |-> "null", n |-> 0, s |-> ""]
Absent == [t |-> "absent", n |-> 0, s |-> ""]
JInt(k) == [t |-> "int", n |-> k, s |-> ""]
JStr(x) == [t |-> "str", n |-> 0, s |-> x]

\* The integers a numeric string of the model can denote.
IntDomain == (-1 .. 25) \cup {1500, 1600}

\* ---------------------------------------------------- Python built-ins
\* dict.get(key): None when the key is absent.
Get(item, key) == IF item.f[key].t = "absent" THEN JNull ELSE item.f[key]

\* dict.get(key, default)
GetDefault(item, key, default) ==
    IF item.f[key].t = "absent" THEN default ELSE item.f[key]

\* key in dict
HasKey(item, key) == item.f[key].t # "absent"

\* str(v)
PyStr(v) ==
    CASE v.t = "str" -> v.s
      [] v.t = "int" -> ToString(v.n)
      [] OTHER -> "None"

\* The integer each decimal numeral of the model denotes.
IntOfText ==
    [x \in {ToString(k) : k \in IntDomain} |->
        CHOOSE k \in IntDomain : ToString(k) = x]

\* int(v): ValueError on a non-numeric string, TypeError on None.
PyInt(v) ==
    CASE v.t = "int" -> [ok |-> TRUE, v |-> v.n]
      [] v.t = "str" ->
            IF v.s \in DOMAIN IntOfText
            THEN [ok |-> TRUE, v |-> IntOfText[v.s]]
            ELSE [ok |-> FALSE, v |-> 0]
      [] OTHER -> [ok |-> FALSE, v |-> 0]

\* Calendar dates the model knows, by their ISO-8601 text.
IsoDates == {"2024-03-01", "2024-03-02"}

DateOfIso(s) ==
    CASE s = "2024-03-01" -> <<2024, 3, 1>>
      [] s = "2024-03-02" -> <<2024, 3, 2>>
      [] OTHER -> <<0, 0, 0>>

\* date.fromisoformat(v): TypeError unless v is a string, ValueError unless
\* the string is YYYY-MM-DD.
FromIsoFormat(v) ==
    IF v.t = "str" /\ v.s \in IsoDates
    THEN [ok |-> TRUE, v |-> DateOfIso(v.s)]
    ELSE [ok |-> FALSE, v |-> <<0, 0, 0>>]

\* Python's  stored != incoming  between a value read from an Integer column
\* (None or int) and a raw JSON value: an int and a str are never equal.
PyNotEqual(stored, incoming) ==
    CASE stored.t = "null" /\ incoming.t = "null" -> FALSE
      [] stored.t = "int" /\ incoming.t = "int" -> stored.n # incoming.n
      [] OTHER -> TRUE

\* ------------------------------------------------------ storage coercion
\* The store is the SQL Server database the configuration builds its URI for
\* (mssql+pyodbc, app/config.py); its columns are typed, so a value that does
\* not convert to the column's type fails the statement.
\* What the database does with a parameter bound to an INTEGER column: NULL
\* stays NULL, a number is stored, a numeric string is converted, any other
\* string makes the statement fail.
DbInt(v) ==
    CASE v.t = "null" -> [ok |-> TRUE, v |-> JNull]
      [] v.t = "int" -> [ok |-> TRUE, v |-> v]
      [] OTHER ->
            IF PyInt(v).ok THEN [ok |-> TRUE, v |-> JInt(PyInt(v).v)]
            ELSE [ok |-> FALSE, v |-> JNull]

\* A parameter bound to a NOT NULL String(max) column.
DbStrNotNull(v, max) == v.t # "null" /\ Len(PyStr(v)) <= max

\* ----------------------------------------------------------- table Demanda
DemandGerenciaMax == 20
DemandSistemaMax == 10

DemandKey(r) == <<r.FechaOperacion, r.HoraOperacion, r.Gerencia>>

\* server-assigned surrogate id: the next identity value of the table
NextId(table) ==
    IF table = {} THEN 1
    ELSE 1 + (CHOOSE m \in {r.id : r \in table} : \A r \in table : r.id <= m)

\* DemandRecord(...): the pending ORM object built from the request.
DemandRecord(fecha, hora, gerencia, item, sistema) ==
    [FechaOperacion |-> fecha, HoraOperacion |-> hora, Gerencia |-> gerencia,
     Demanda |-> Get(item, "Demanda"), Generacion |-> Get(item, "Generacion"),
     Pronostico |-> Get(item, "Pronostico"), Enlace |-> Get(item, "Enlace"),
     Sistema |-> sistema]

\* Whether the values of one pending DemandRecord fit the column types.
DemandColumnsOk(p) ==
    /\ DbInt(p.Demanda).ok /\ DbInt(p.Generacion).ok
    /\ DbInt(p.Pronostico).ok /\ DbInt(p.Enlace).ok
    /\ DbStrNotNull(p.Gerencia, DemandGerenciaMax)
    /\ DbStrNotNull(p.Sistema, DemandSistemaMax)

\* The row the INSERT of a pending DemandRecord creates at time t.
DemandRow(p, id, t) ==
    [id |-> id, FechaOperacion |-> p.FechaOperacion,
     HoraOperacion |-> p.HoraOperacion, Gerencia |-> PyStr(p.Gerencia),
     Demanda |-> DbInt(p.Demanda).v, Generacion |-> DbInt(p.Generacion).v,
     Pronostico |-> DbInt(p.Pronostico).v, Enlace |-> DbInt(p.Enlace).v,
     Sistema |-> PyStr(p.Sistema), FechaCreacion |-> t, FechaModificacion |-> t]

\* A demand table without its unique constraint.
DemandUniqueOkAbsent(table, p) == TRUE

\* uq_demand_record_fecha_hora_gerencia
DemandUniqueOk(table, p) ==
    ~ \E r \in table :
        DemandKey(r) = <<p.FechaOperacion, p.HoraOperacion, PyStr(p.Gerencia)>>

\* Flush of the pending inserts, in order, inside the open transaction:
\* the working table so far and how the flush ended ("ok", "integrity" for a
\* unique or NOT NULL violation, "data" for a value the column rejects).
RECURSIVE DemandFlush(_, _, _)
DemandFlush(table, pending, t) ==
    IF pending = <<>> THEN [err |-> "ok", table |-> table]
    ELSE LET p == Head(pending) IN
         IF p.Gerencia.t = "null" \/ p.Sistema.t = "null"
         THEN [err |-> "integrity", table |-> table]
         ELSE IF ~ DemandColumnsOk(p)
         THEN [err |-> "data", table |-> table]
         ELSE IF ~ DemandUniqueOk(table, p)
         THEN [err |-> "integrity", table |-> table]
         ELSE DemandFlush(table \cup {DemandRow(p, NextId(table), t)}, Tail(pending), t)

\* session.commit(): flush, then make the transaction durable; a storage
\* fault ("operational") can hit the commit after a clean flush.
CommitResult(flushed, fault) ==
    IF flushed.err = "ok" /\ fault THEN [err |-> "operational", table |-> flushed.table]
    ELSE flushed

\* session.rollback(): the table as it was when the transaction began.
RollbackKeepsWrites(before, working) == working

Rollback(before, working) == before

\* DemandRecord.data_is_different
DataIsDifferent(row, item) ==
    \/ PyNotEqual(row.Demanda, Get(item, "Demanda"))
    \/ PyNotEqual(row.Generacion, Get(item, "Generacion"))
    \/ PyNotEqual(row.Pronostico, Get(item, "Pronostico"))
    \/ PyNotEqual(row.Enlace, Get(item, "Enlace"))


\* An UPDATE that writes Demanda alone.
DemandUpdateDemandaOnly(table, row, item, t) ==
    LET d == DbInt(Get(item, "Demanda"))
    IN  IF d.ok
        THEN [err |-> "ok",
              table |-> (table \ {row}) \cup
                  {[row EXCEPT !.Demanda = d.v, !.FechaModificacion = t]}]
        ELSE [err |-> "data", table |-> table]

\* An update done as DELETE and INSERT: the row comes back under a new id.
DemandUpdateReinsert(table, row, item, t) ==
    LET d == DbInt(Get(item, "Demanda"))
        g == DbInt(Get(item, "Generacion"))
        p == DbInt(Get(item, "Pronostico"))
        e == DbInt(Get(item, "Enlace"))
    IN  IF d.ok /\ g.ok /\ p.ok /\ e.ok
        THEN [err |-> "ok",
              table |-> (table \ {row}) \cup
                  {[row EXCEPT !.id = NextId(table),
                               !.Demanda = d.v, !.Generacion = g.v,
                               !.Pronostico = p.v, !.Enlace = e.v,
                               !.FechaCreacion = t, !.FechaModificacion = t]}]
        ELSE [err |-> "data", table |-> table]

\* The row of the table under the primary key of a row loaded earlier.
Reloaded(table, row) == CHOOSE r \in table : r.id = row.id

\* The UPDATE the unit of work emits for a loaded row whose four data
\* attributes were assigned from the request: UPDATE .. SET .. WHERE id, with
\* the attributes whose value differs from the loaded one in the SET list;
\* onupdate sets FechaModificacion.
DemandUpdate(table, row, item, t) ==
    LET d == DbInt(Get(item, "Demanda"))
        g == DbInt(Get(item, "Generacion"))
        p == DbInt(Get(item, "Pronostico"))
        e == DbInt(Get(item, "Enlace"))
        set(k) == PyNotEqual(row[k], Get(item, k))
    IN  IF d.ok /\ g.ok /\ p.ok /\ e.ok
        THEN [err |-> "ok",
              table |-> (table \ {Reloaded(table, row)}) \cup
                  {[Reloaded(table, row) EXCEPT
                       !.Demanda = IF set("Demanda") THEN d.v ELSE @,
                       !.Generacion = IF set("Generacion") THEN g.v ELSE @,
                       !.Pronostico = IF set("Pronostico") THEN p.v ELSE @,
                       !.Enlace = IF set("Enlace") THEN e.v ELSE @,
                       !.FechaModificacion = t]}]
        ELSE [err |-> "data", table |-> table]

\* ------------------------------------------- POST demanda (single upsert)
DemandHoraMin == 0
DemandHoraMax == 24
DemandHoraMaxApp == 23

\* What one call of submit_data_single leaves behind: the table, the response
\* and how its commit ended ("none" when it commits nothing).
SingleResponse(table, http, status, action, commit) ==
    [table |-> table, http |-> http, status |-> status, action |-> action,
     commit |-> commit]

\* A conflict branch that writes the row again and commits.
SingleConflictRewrites(table, existing_record) ==
    SingleResponse((table \ {existing_record}) \cup
                       {[existing_record EXCEPT !.FechaModificacion = @ + 1]},
                   409, "conflict", "none", "ok")

\* The CONFLICT branch of submit_data_single: it logs and answers, and
\* touches neither the loaded row nor the session.
SingleConflict(table, existing_record) ==
    SingleResponse(table, 409, "conflict", "none", "none")

\* Part 2 of submit_data_single, "Extract and Validate Key components":
\* whether the handler answers 400 before it reaches the database; horaMax is
\* the upper hour bound of the deployment (24 in api/v1/demand.py, 23 in
\* app.py).
SingleRejected(item, horaMax) ==
    \/ ~ item.obj
    \/ Get(item, "FechaOperacion").t = "null"
    \/ Get(item, "HoraOperacion").t = "null"
    \/ Get(item, "Gerencia").t = "null"
    \/ ~ FromIsoFormat(Get(item, "FechaOperacion")).ok
    \/ ~ PyInt(Get(item, "HoraOperacion")).ok
    \/ ~ (DemandHoraMin <= PyInt(Get(item, "HoraOperacion")).v
          /\ PyInt(Get(item, "HoraOperacion")).v <= horaMax)

\* DemandRecord.query.filter_by(FechaOperacion, HoraOperacion, Gerencia):
\* the rows the lookup of a validated record loads.
SingleLookup(table, item) ==
    {r \in table :
        DemandKey(r) = <<FromIsoFormat(Get(item, "FechaOperacion")).v,
                        PyInt(Get(item, "HoraOperacion")).v,
                        PyStr(Get(item, "Gerencia"))>>}

\* A write in which the last request wins: the new record replaces whatever
\* row of its key the table holds by now.
SingleWriteLastWins(table, found, item, t, fault) ==
    LET new_record == DemandRecord(FromIsoFormat(Get(item, "FechaOperacion")).v,
                                   PyInt(Get(item, "HoraOperacion")).v,
                                   Get(item, "Gerencia"), item,
                                   GetDefault(item, "Sistema", JStr("UNK")))
    IN  SingleResponse((table \ SingleLookup(table, item))
                           \cup {DemandRow(new_record, NextId(table), t)},
                       201, "success", "inserted", "ok")

\* Part 3 of submit_data_single after the lookup has loaded `found`: the
\* INSERT, UPDATE or CONFLICT branch and its commit against the table as it
\* is when the commit runs.
SingleWrite(table, found, item, t, fault) ==
    IF found = {}
    THEN LET new_record == DemandRecord(FromIsoFormat(Get(item, "FechaOperacion")).v,
                                        PyInt(Get(item, "HoraOperacion")).v,
                                        Get(item, "Gerencia"), item,
                                        GetDefault(item, "Sistema", JStr("UNK")))
             done == CommitResult(DemandFlush(table, <<new_record>>, t), fault)
         IN  IF done.err = "ok"
             THEN SingleResponse(done.table, 201, "success", "inserted", "ok")
             ELSE SingleResponse(Rollback(table, done.table), 500, "error", "error", done.err)
    ELSE LET existing_record == CHOOSE r \in found : TRUE IN
         IF DataIsDifferent(existing_record, item)
         THEN LET done == CommitResult(
                              DemandUpdate(table, existing_record, item, t), fault)
              IN  IF done.err = "ok"
                  THEN SingleResponse(done.table, 200, "success", "updated", "ok")
                  ELSE SingleResponse(Rollback(table, done.table), 500, "error", "error", done.err)
         ELSE SingleConflict(table, existing_record)

\* submit_data_single from the parsed body to the response, when nothing
\* else touches the table between its lookup and its commit.
SubmitDataSingleOutcome(table, item, t, fault, horaMax) ==
    IF SingleRejected(item, horaMax)
    THEN SingleResponse(table, 400, "error", "", "none")
    ELSE SingleWrite(table, SingleLookup(table, item), item, t, fault)


\* ----------------------------------------------- POST demanda/bulk
NoSummary ==
    [total_records_received |-> 0, records_attempted_insert |-> 0,
     records_with_validation_errors |-> 0, successfully_inserted |-> 0,
     failed_or_rolled_back |-> 0]

BulkResult(index, status, action) ==
    [original_index |-> index, status |-> status, action |-> action]

\* The loop of submit_data_bulk over records_list from position index on:
\* the objects added to the session and the per-item results.
RECURSIVE BulkPrepare(_, _, _)
BulkPrepare(records_list, index, acc) ==
    IF index > Len(records_list) THEN acc
    ELSE
    LET record_dict == records_list[index]
        fecha_op_str == Get(record_dict, "FechaOperacion")
        hora_op_val == Get(record_dict, "HoraOperacion")
        gerencia == Get(record_dict, "Gerencia")
        sistema_val == GetDefault(record_dict, "Sistema", JStr("UNK"))
        fecha_op == FromIsoFormat(fecha_op_str)
        hora == PyInt(JStr(PyStr(hora_op_val)))
        skip(action) ==
            [acc EXCEPT !.results = Append(@, BulkResult(index - 1, "error", action)),
                        !.records_with_validation_errors = @ + 1]
    IN
    IF ~ record_dict.obj
    THEN BulkPrepare(records_list, index + 1, skip("skipped_invalid_format"))
    ELSE IF fecha_op_str.t = "null" \/ hora_op_val.t = "null" \/ gerencia.t = "null"
    THEN BulkPrepare(records_list, index + 1, skip("skipped_missing_keys"))
    ELSE IF ~ fecha_op.ok \/ ~ hora.ok
            \/ ~ (DemandHoraMin <= hora.v /\ hora.v <= DemandHoraMax)
    THEN BulkPrepare(records_list, index + 1, skip("skipped_invalid_key_format"))
    ELSE BulkPrepare(records_list, index + 1,
            [acc EXCEPT
                !.session = Append(@, DemandRecord(fecha_op.v, hora.v, gerencia,
                                                   record_dict, sistema_val)),
                !.results = Append(@, BulkResult(index - 1, "pending_insert",
                                                 "insert_queued")),
                !.records_prepared_for_insert = @ + 1])

\* A rewrite that stops at the first queued result.
SettleFirstQueued(results, status, action) ==
    [i \in 1 .. Len(results) |->
        IF results[i].action = "insert_queued"
           /\ \A j \in 1 .. (i - 1) : results[j].action # "insert_queued"
        THEN [results[i] EXCEPT !.status = status, !.action = action]
        ELSE results[i]]

\* Rewrites the results that are still queued once the commit is decided.
SettleQueued(results, status, action) ==
    [i \in 1 .. Len(results) |->
        IF results[i].action = "insert_queued"
        THEN [results[i] EXCEPT !.status = status, !.action = action]
        ELSE results[i]]

\* A count of every result that is no longer queued.
CountSettled(results) ==
    Cardinality({i \in 1 .. Len(results) : results[i].action # "insert_queued"})

\* final_successful_count of submit_data_bulk.
CountInserted(results) ==
    Cardinality({i \in 1 .. Len(results) :
        results[i].status = "success" /\ results[i].action = "inserted"})

\* The per-item results of submit_data_bulk once the commit of the queued
\* objects has ended in `done`.
BulkResults(prep, done) ==
    IF prep.records_prepared_for_insert = 0 THEN prep.results
    ELSE IF done.err = "ok"
    THEN SettleQueued(prep.results, "success", "inserted")
    ELSE IF done.err = "integrity"
    THEN Append(SettleQueued(prep.results, "error", "insert_failed_duplicate"),
                BulkResult(-1, "error", "batch_commit_failed_integrity_error"))
    ELSE Append(SettleQueued(prep.results, "error", "insert_failed_db_error"),
                BulkResult(-1, "error", "batch_commit_failed_sqla_error"))

\* A status code that answers 207 whenever some item failed validation and no
\* commit failed.
BulkStatusCodeMultiStatus(prepared, invalid, err) ==
    IF prepared > 0
    THEN (IF err = "ok" THEN (IF invalid > 0 THEN 207 ELSE 201)
          ELSE IF err = "integrity" THEN 409 ELSE 500)
    ELSE IF invalid > 0 THEN 207
    ELSE 200

\* overall_status_code of submit_data_bulk, from the number of objects queued,
\* the number of items that failed validation and the outcome of the commit.
BulkStatusCode(prepared, invalid, err) ==
    IF prepared > 0
    THEN (IF err = "ok" THEN 201
          ELSE IF err = "integrity" THEN 409 ELSE 500)
    ELSE IF invalid > 0 THEN 400
    ELSE 200

\* The summary and the results of submit_data_bulk.
BulkRespond(table, records_list, prep, done, results, final_successful_count) ==
    LET overall_status_code ==
            BulkStatusCode(prep.records_prepared_for_insert,
                           prep.records_with_validation_errors, done.err)
        final_failed_count == Len(records_list) - final_successful_count
    IN  [table |-> IF prep.records_prepared_for_insert = 0 THEN table
                   ELSE IF done.err = "ok" THEN done.table
                   ELSE Rollback(table, done.table),
         http |-> overall_status_code, status |-> "", has_summary |-> TRUE,
         summary |->
            [total_records_received |-> Len(records_list),
             records_attempted_insert |-> prep.records_prepared_for_insert,
             records_with_validation_errors |-> prep.records_with_validation_errors,
             successfully_inserted |-> final_successful_count,
             failed_or_rolled_back |->
                 final_failed_count - prep.records_with_validation_errors],
         results |-> results, session |-> prep.session,
         commit |-> IF prep.records_prepared_for_insert = 0 THEN "none" ELSE done.err]

BulkCommitted(table, records_list, prep, done) ==
    BulkRespond(table, records_list, prep, done, BulkResults(prep, done),
                CountInserted(BulkResults(prep, done)))

BulkPrepared(table, records_list, t, fault, prep) ==
    BulkCommitted(table, records_list, prep,
                  CommitResult(DemandFlush(table, prep.session, t), fault))

\* submit_data_bulk from the parsed list to the response.
SubmitDataBulkOutcome(table, records_list, t, fault) ==
    IF records_list = <<>>
    THEN [table |-> table, http |-> 200, status |-> "success", has_summary |-> FALSE,
          summary |-> NoSummary, results |-> <<>>, session |-> <<>>,
          commit |-> "none"]
    ELSE BulkPrepared(table, records_list, t, fault,
            BulkPrepare(records_list, 1,
                [session |-> <<>>, results |-> <<>>,
                 records_prepared_for_insert |-> 0,
                 records_with_validation_errors |-> 0]))


\* ------------------------------------------ tables PNDMDA .. PNDMTR
\* DATA_TYPE_MODELS
DataTypeModels == {"pnd_mda", "pml_mda", "pml_mtr", "pnd_mtr"}

\* A lookup of the token as it was sent.
LowerIdentity(token) == token

\* data_type.lower() on the tokens the model sends
Lower(token) ==
    CASE token = "PML_MDA" -> "pml_mda"
      [] token = "Pnd_Mtr" -> "pnd_mtr"
      [] OTHER -> token

PnxHoraMin == 0
PnxHoraMax == 24
PnxSistemaMax == 3
PnxClaveMax == 20

JDec(cents) == [t |-> "dec", n |-> cents, s |-> ""]

\* A parameter bound to a Numeric(10, 2) column, kept in hundredths: NULL
\* stays NULL, a number or numeric string is stored, any other string
\* (the empty one too) makes the statement fail.
DbNumeric(v) ==
    CASE v.t = "null" -> [ok |-> TRUE, v |-> JNull]
      [] v.t = "int" -> [ok |-> TRUE, v |-> JDec(100 * v.n)]
      [] v.t = "str" /\ v.s = "50.25" -> [ok |-> TRUE, v |-> JDec(5025)]
      [] OTHER ->
            IF PyInt(v).ok THEN [ok |-> TRUE, v |-> JDec(100 * PyInt(v).v)]
            ELSE [ok |-> FALSE, v |-> JNull]

PnxKey(r) == <<r.Sistema, r.Fecha, r.Hora, r.Clave>>

PnxColumnsOk(p) ==
    /\ DbNumeric(p.PML).ok /\ DbNumeric(p.Energia).ok
    /\ DbNumeric(p.Congestion).ok /\ DbNumeric(p.Perdidas).ok

PnxRow(p) ==
    [Sistema |-> p.Sistema, Fecha |-> p.Fecha, Hora |-> p.Hora, Clave |-> p.Clave,
     PML |-> DbNumeric(p.PML).v, Energia |-> DbNumeric(p.Energia).v,
     Congestion |-> DbNumeric(p.Congestion).v, Perdidas |-> DbNumeric(p.Perdidas).v]

\* the composite primary key (Sistema, Fecha, Hora, Clave)
PnxUniqueOk(table, p) == ~ \E r \in table : PnxKey(r) = PnxKey(p)

RECURSIVE PnxFlush(_, _)
PnxFlush(table, pending) ==
    IF pending = <<>> THEN [err |-> "ok", table |-> table]
    ELSE LET p == Head(pending) IN
         IF ~ PnxColumnsOk(p) THEN [err |-> "data", table |-> table]
         ELSE IF ~ PnxUniqueOk(table, p) THEN [err |-> "integrity", table |-> table]
         ELSE PnxFlush(table \cup {PnxRow(p)}, Tail(pending))

\* -------------------------------------------- POST mda_mtr/<data_type>
PnxRequiredKeys == {"Sistema", "Fecha", "Hora", "Clave"}

RecordError(index, error) == [index |-> index, error |-> error]

\* A validation that lets strings of any length through.
PnxValidateNoLengths(record_dict) ==
    LET fecha == FromIsoFormat(JStr(PyStr(record_dict.f["Fecha"])))
        hora == PyInt(record_dict.f["Hora"])
        fail(error) == [ok |-> FALSE, error |-> error, data |-> <<>>]
    IN
    IF \E k \in {"Sistema", "Fecha", "Hora", "Clave"} : ~ HasKey(record_dict, k)
    THEN fail("Missing required key fields (Sistema, Fecha, Hora, Clave).")
    ELSE IF ~ fecha.ok THEN fail("Invalid isoformat string")
    ELSE IF ~ hora.ok THEN fail("invalid literal for int()")
    ELSE IF ~ (0 <= hora.v /\ hora.v <= 24) THEN fail("Invalid Hora range")
    ELSE [ok |-> TRUE, error |-> "",
          data |-> [Sistema |-> PyStr(record_dict.f["Sistema"]), Fecha |-> fecha.v,
                    Hora |-> hora.v, Clave |-> PyStr(record_dict.f["Clave"]),
                    PML |-> Get(record_dict, "PML"),
                    Energia |-> Get(record_dict, "Energia"),
                    Congestion |-> Get(record_dict, "Congestion"),
                    Perdidas |-> Get(record_dict, "Perdidas")]]

\* The try block of submit_generic_batch_insert_only for one object: the
\* validated_data it builds, or the exception text it raises.
PnxValidate(record_dict) ==
    LET sistema == PyStr(record_dict.f["Sistema"])
        fecha == FromIsoFormat(JStr(PyStr(record_dict.f["Fecha"])))
        hora == PyInt(record_dict.f["Hora"])
        clave == PyStr(record_dict.f["Clave"])
        fail(error) == [ok |-> FALSE, error |-> error, data |-> <<>>]
    IN
    IF \E k \in PnxRequiredKeys : ~ HasKey(record_dict, k)
    THEN fail("Missing required key fields (Sistema, Fecha, Hora, Clave).")
    ELSE IF ~ fecha.ok THEN fail("Invalid isoformat string")
    ELSE IF ~ hora.ok THEN fail("invalid literal for int()")
    ELSE IF ~ (PnxHoraMin <= hora.v /\ hora.v <= PnxHoraMax)
    THEN fail("Invalid Hora range")
    ELSE IF Len(sistema) > PnxSistemaMax THEN fail("Sistema too long")
    ELSE IF Len(clave) > PnxClaveMax THEN fail("Clave too long")
    ELSE [ok |-> TRUE, error |-> "",
          data |-> [Sistema |-> sistema, Fecha |-> fecha.v, Hora |-> hora.v,
                    Clave |-> clave, PML |-> Get(record_dict, "PML"),
                    Energia |-> Get(record_dict, "Energia"),
                    Congestion |-> Get(record_dict, "Congestion"),
                    Perdidas |-> Get(record_dict, "Perdidas")]]

RECURSIVE PnxPrepare(_, _, _)
PnxPrepare(records_list, index, acc) ==
    IF index > Len(records_list) THEN acc
    ELSE
    LET record_dict == records_list[index]
        checked == PnxValidate(record_dict)
    IN
    IF ~ record_dict.obj
    THEN PnxPrepare(records_list, index + 1,
            [acc EXCEPT !.failed_validation = @ + 1,
                        !.record_errors =
                            Append(@, RecordError(index - 1, "Item not an object."))])
    ELSE IF ~ checked.ok
    THEN PnxPrepare(records_list, index + 1,
            [acc EXCEPT !.failed_validation = @ + 1,
                        !.record_errors =
                            Append(@, RecordError(index - 1, checked.error))])
    ELSE PnxPrepare(records_list, index + 1,
            [acc EXCEPT !.objects_to_insert = Append(@, checked.data)])

\* A summary that counts every object handed to the commit as inserted.
BatchSummaryAttempted(total, inserted, failed_validation, database_errors) ==
    [total_records_received |-> total, inserted |-> inserted + database_errors,
     failed_validation |-> failed_validation, database_errors |-> database_errors]

\* response_summary of the insert-only batch handlers.
BatchSummary(total, inserted, failed_validation, database_errors) ==
    [total_records_received |-> total, inserted |-> inserted,
     failed_validation |-> failed_validation, database_errors |-> database_errors]

\* A classification in which a validation failure outranks a failed commit.
PnxBatchStatusValidationFirst(failed_validation, commit) ==
    IF failed_validation > 0 THEN [status |-> "partial_success", http |-> 207]
    ELSE IF commit \in {"none", "ok"} THEN [status |-> "success", http |-> 200]
    ELSE [status |-> "error", http |-> 500]

\* Step 3 of submit_generic_batch_insert_only: final_status and http_code
\* from the validation count and the outcome of the commit ("none": no
\* commit attempted).
PnxBatchStatus(failed_validation, commit) ==
    LET after_commit ==
            IF commit = "none"
            THEN (IF failed_validation > 0
                  THEN [status |-> "partial_success", http |-> 207]
                  ELSE [status |-> "success", http |-> 200])
            ELSE IF commit = "ok" THEN [status |-> "success", http |-> 200]
            ELSE [status |-> "error", http |-> 500]
    IN  IF failed_validation > 0 /\ after_commit.status # "error"
        THEN [status |-> "partial_success", http |-> 207]
        ELSE after_commit

\* The response of submit_generic_batch_insert_only once its loop has run and
\* the commit of objects_to_insert has ended in `done`.
PnxBatchOutcome(table, records_list, prep, done) ==
    LET attempted == prep.objects_to_insert # <<>>
        commit == IF attempted THEN done.err ELSE "none"
        final == PnxBatchStatus(prep.failed_validation, commit)
    IN  [table |-> IF ~ attempted THEN table
                   ELSE IF done.err = "ok" THEN done.table
                   ELSE Rollback(table, done.table),
         http |-> final.http, status |-> final.status,
         summary |->
            BatchSummary(Len(records_list),
                IF commit = "ok" THEN Len(prep.objects_to_insert) ELSE 0,
                prep.failed_validation,
                IF commit \in {"ok", "none"} THEN 0 ELSE Len(prep.objects_to_insert)),
         errors |->
            IF commit \in {"ok", "none"} THEN prep.record_errors
            ELSE Append(prep.record_errors, RecordError(-1, "Database commit failed")),
         objects_to_insert |-> prep.objects_to_insert, commit |-> commit]

\* The early return of an insert-only batch handler on an empty list.
EmptyBatchOutcome(table) ==
    [table |-> table, http |-> 200, status |-> "success",
     summary |-> BatchSummary(0, 0, 0, 0), errors |-> <<>>,
     objects_to_insert |-> <<>>, commit |-> "none"]

\* An early return that answers an empty list as a client error.
CapEmptyBatchRejected(table) ==
    [table |-> table, http |-> 400, status |-> "error",
     summary |-> BatchSummary(0, 0, 0, 0), errors |-> <<>>,
     objects_to_insert |-> <<>>, commit |-> "none"]

\* The early return of submit_capacidad_transferencia_batch on an empty list.
CapEmptyBatchOutcome(table) ==
    [table |-> table, http |-> 200, status |-> "success",
     summary |-> BatchSummary(0, 0, 0, 0), errors |-> <<>>,
     objects_to_insert |-> <<>>, commit |-> "none"]

NoPrep == [objects_to_insert |-> <<>>, failed_validation |-> 0, record_errors |-> <<>>]

\* submit_generic_batch_insert_only for a known data type, from the parsed
\* list to the response.
SubmitGenericBatchOutcome(table, records_list, fault) ==
    IF records_list = <<>> THEN EmptyBatchOutcome(table)
    ELSE LET prep == PnxPrepare(records_list, 1, NoPrep)
             done == CommitResult(PnxFlush(table, prep.objects_to_insert), fault)
         IN  PnxBatchOutcome(table, records_list, prep, done)


\* ------------------------------------- table CapacidadTransferencia
CapHorarioMin == 1
CapHorarioMax == 24
CapSistemaMax == 3
CapEnlaceMax == 32

CapFields ==
    {"CapTransDisImpComMwh", "CapResImpEneInadMwh", "CapResImpConfMWh",
     "CapAbsTransDisImpMWh", "CapTransDisExpComMwh", "CapResExpEneInaMwh",
     "CapResExpConfMwh", "CapAbsTransDisExpMwh"}

CapRequiredKeys == {"Sistema", "FechaOperacion", "Enlace", "Horario"} \cup CapFields

CapKey(r) == <<r.Sistema, r.FechaOperacion, r.Enlace, r.Horario>>

\* CapacidadTransferenciaRecord declares no unique constraint (its
\* __table_args__ is commented out): the only key is the identity column Id.
CapUniqueOk(table, p) == TRUE

CapRow(p, id, t) ==
    [Id |-> id, Sistema |-> p.Sistema, FechaOperacion |-> p.FechaOperacion,
     Enlace |-> p.Enlace, Horario |-> p.Horario, caps |-> p.caps,
     FechaCreacion |-> t, FechaActualizacion |-> t]

NextCapId(table) ==
    IF table = {} THEN 1
    ELSE 1 + (CHOOSE m \in {r.Id : r \in table} : \A r \in table : r.Id <= m)

RECURSIVE CapFlush(_, _, _)
CapFlush(table, pending, t) ==
    IF pending = <<>> THEN [err |-> "ok", table |-> table]
    ELSE LET p == Head(pending) IN
         IF ~ CapUniqueOk(table, p) THEN [err |-> "integrity", table |-> table]
         ELSE CapFlush(table \cup {CapRow(p, NextCapId(table), t)}, Tail(pending), t)

\* ------------------------------------- POST capacidad_transferencia
\* The try block of submit_capacidad_transferencia_batch for one object.
CapValidate(record_dict) ==
    LET sistema == PyStr(record_dict.f["Sistema"])
        fecha == FromIsoFormat(JStr(PyStr(record_dict.f["FechaOperacion"])))
        enlace == PyStr(record_dict.f["Enlace"])
        horario == PyInt(record_dict.f["Horario"])
        fail(error) == [ok |-> FALSE, error |-> error, data |-> <<>>]
    IN
    IF \E k \in CapRequiredKeys : ~ HasKey(record_dict, k)
    THEN fail("Missing required key fields")
    ELSE IF ~ fecha.ok THEN fail("Invalid isoformat string")
    ELSE IF ~ horario.ok \/ \E k \in CapFields : ~ PyInt(record_dict.f[k]).ok
    THEN fail("invalid literal for int()")
    ELSE IF ~ (CapHorarioMin <= horario.v /\ horario.v <= CapHorarioMax)
    THEN fail("Invalid Horario range (expected 1-24)")
    ELSE IF Len(sistema) > CapSistemaMax
    THEN fail("Sistema value too long (max 3 characters)")
    ELSE IF Len(enlace) > CapEnlaceMax
    THEN fail("Enlace value too long (max 32 characters)")
    ELSE [ok |-> TRUE, error |-> "",
          data |-> [Sistema |-> sistema, FechaOperacion |-> fecha.v,
                    Enlace |-> enlace, Horario |-> horario.v,
                    caps |-> [k \in CapFields |-> PyInt(record_dict.f[k]).v]]]

RECURSIVE CapPrepare(_, _, _)
CapPrepare(records_list, index, acc) ==
    IF index > Len(records_list) THEN acc
    ELSE
    LET record_dict == records_list[index]
        checked == CapValidate(record_dict)
    IN
    IF ~ record_dict.obj
    THEN CapPrepare(records_list, index + 1,
            [acc EXCEPT !.failed_validation = @ + 1,
                        !.record_errors =
                            Append(@, RecordError(index - 1, "Item not an object."))])
    ELSE IF ~ checked.ok
    THEN CapPrepare(records_list, index + 1,
            [acc EXCEPT !.failed_validation = @ + 1,
                        !.record_errors =
                            Append(@, RecordError(index - 1, checked.error))])
    ELSE CapPrepare(records_list, index + 1,
            [acc EXCEPT !.objects_to_insert = Append(@, checked.data)])

\* Step 3 of submit_capacidad_transferencia_batch.
CapBatchStatus(failed_validation, commit) ==
    LET after_commit ==
            IF commit = "none"
            THEN (IF failed_validation > 0
                  THEN [status |-> "partial_success", http |-> 207]
                  ELSE [status |-> "success", http |-> 200])
            ELSE IF commit = "ok" THEN [status |-> "success", http |-> 200]
            ELSE [status |-> "error", http |-> 500]
    IN  IF failed_validation > 0 /\ after_commit.status = "success"
        THEN [status |-> "partial_success", http |-> 207]
        ELSE after_commit

CapBatchOutcome(table, records_list, prep, done) ==
    LET attempted == prep.objects_to_insert # <<>>
        commit == IF attempted THEN done.err ELSE "none"
        final == CapBatchStatus(prep.failed_validation, commit)
    IN  [table |-> IF ~ attempted THEN table
                   ELSE IF done.err = "ok" THEN done.table
                   ELSE Rollback(table, done.table),
         http |-> final.http, status |-> final.status,
         summary |->
            BatchSummary(Len(records_list),
                IF commit = "ok" THEN Len(prep.objects_to_insert) ELSE 0,
                prep.failed_validation,
                IF commit \in {"ok", "none"} THEN 0 ELSE Len(prep.objects_to_insert)),
         errors |->
            IF commit \in {"ok", "none"} THEN prep.record_errors
            ELSE Append(prep.record_errors, RecordError(-1, "Database commit failed")),
         objects_to_insert |-> prep.objects_to_insert, commit |-> commit]

\* submit_capacidad_transferencia_batch from the parsed list to the response.
SubmitCapacidadBatchOutcome(table, records_list, t, fault) ==
    IF records_list = <<>> THEN CapEmptyBatchOutcome(table)
    ELSE LET prep == CapPrepare(records_list, 1, NoPrep)
             done == CommitResult(CapFlush(table, prep.objects_to_insert, t), fault)
         IN  CapBatchOutcome(table, records_list, prep, done)


\* ------------------------------------------ more Python built-ins
\* Python truthiness of a JSON scalar: None, "" and 0 are falsy.
Truthy(v) ==
    CASE v.t = "str" -> v.s # ""
      [] v.t = "int" -> v.n # 0
      [] OTHER -> FALSE

\* datetime.strptime(v, "%Y-%m-%d").date(): "type" for a TypeError (v is no
\* string), "value" for a ValueError.
StrptimeIso(v) ==
    IF v.t # "str" THEN [err |-> "type", v |-> <<0, 0, 0>>]
    ELSE IF v.s \in IsoDates THEN [err |-> "ok", v |-> DateOfIso(v.s)]
    ELSE [err |-> "value", v |-> <<0, 0, 0>>]

\* datetime.strptime(v, "%d/%m/%Y").date()
StrptimeDmy(v) ==
    IF v.t # "str" THEN [err |-> "type", v |-> <<0, 0, 0>>]
    ELSE IF v.s = "01/03/2024" THEN [err |-> "ok", v |-> <<2024, 3, 1>>]
    ELSE IF v.s = "02/03/2024" THEN [err |-> "ok", v |-> <<2024, 3, 2>>]
    ELSE [err |-> "value", v |-> <<0, 0, 0>>]

\* Decimal(str(v)) if v is not None else None: InvalidOperation on a
\* non-numeric string.
PyDecimal(v) ==
    CASE v.t = "null" -> [ok |-> TRUE, v |-> JNull]
      [] v.t = "int" -> [ok |-> TRUE, v |-> JDec(100 * v.n)]
      [] v.t = "str" /\ v.s = "50.25" -> [ok |-> TRUE, v |-> JDec(5025)]
      [] OTHER ->
            IF PyInt(v).ok THEN [ok |-> TRUE, v |-> JDec(100 * PyInt(v).v)]
            ELSE [ok |-> FALSE, v |-> JNull]

\* The instant a caller-supplied ISO timestamp denotes, on the clock's scale.
CallerInstant == 100

\* datetime.fromisoformat(v)
DateTimeFromIso(v) ==
    IF v.t = "str" /\ v.s = "2020-01-01T00:00:00"
    THEN [ok |-> TRUE, v |-> CallerInstant]
    ELSE [ok |-> FALSE, v |-> 0]


\* ------------------------------------------ table DemandaRealBalance
BalanceSistemaMax == 49
BalanceAreaMax == 3
BalanceLiqMin == 0
BalanceLiqMax == 3

BalanceDecimalFields ==
    {"Generacion_MWh", "Importacion_Total_MWh", "Exportacion_Total_MWh",
     "Intercambio_Neto_Entre_Gerencias_MWh", "Estimacion_Demanda_Por_Balance_MWh"}

\* UQ_DemandaRealBalance_OperacionLiqRefUnica
BalanceKey(r) ==
    <<r.DiaOperacion, r.Sistema, r.Area, r.Hora, r.Liq, r.FechaPublicacion>>

NextBalanceId(table) ==
    IF table = {} THEN 1
    ELSE 1 + (CHOOSE m \in {r.Id : r \in table} : \A r \in table : r.Id <= m)

\* A timestamp column with server_default=func.now(): the value the ORM
\* object carries, when it carries one, else the store's clock.
ServerDefault(given, t) == IF given.set THEN given.v ELSE t

BalanceRow(p, id, t) ==
    [Id |-> id, DiaOperacion |-> p.DiaOperacion, Sistema |-> PyStr(p.Sistema),
     Area |-> PyStr(p.Area), Hora |-> p.Hora, decimals |-> p.decimals,
     Liq |-> p.Liq, FechaPublicacion |-> p.FechaPublicacion,
     FechaCreacion |-> ServerDefault(p.FechaCreacion, t),
     FechaActualizacion |-> ServerDefault(p.FechaActualizacion, t)]

RECURSIVE BalanceFlush(_, _, _)

\* The INSERT of one row: the columns' lengths, CK_LiqRange and the unique
\* constraint, then the rest of the pending records.
BalanceInsert(table, pending, t, row) ==
    IF Len(row.Sistema) > BalanceSistemaMax \/ Len(row.Area) > BalanceAreaMax
    THEN [err |-> "data", table |-> table]
    ELSE IF ~ (BalanceLiqMin <= row.Liq /\ row.Liq <= BalanceLiqMax)
            \/ \E r \in table : BalanceKey(r) = BalanceKey(row)
    THEN [err |-> "integrity", table |-> table]
    ELSE BalanceFlush(table \cup {row}, Tail(pending), t)

BalanceFlush(table, pending, t) ==
    IF pending = <<>> THEN [err |-> "ok", table |-> table]
    ELSE BalanceInsert(table, pending, t,
                       BalanceRow(Head(pending), NextBalanceId(table), t))

\* ------------------------------- create_demanda_records (the service)
NotGiven == [set |-> FALSE, v |-> 0]

\* parsed_data of an item whose parsing raised: never built.
NoParsed == [DiaOperacion |-> <<0, 0, 0>>]

\* An optional caller timestamp of one item: "if key in item and item[key]".
OptionalInstant(item_data, key) ==
    IF HasKey(item_data, key) /\ Truthy(item_data.f[key])
    THEN LET d == DateTimeFromIso(item_data.f[key])
         IN  [ok |-> d.ok, given |-> [set |-> TRUE, v |-> d.v]]
    ELSE [ok |-> TRUE, given |-> NotGiven]

\* The body of the loop of create_demanda_records for one item: the number
\* of messages it appends to validation_errors and the parsed_data it built.
BalanceParse(item_data) ==
    LET dia == StrptimeDmy(Get(item_data, "DiaOperacion"))
        hora == PyInt(Get(item_data, "Hora"))
        liq == PyInt(Get(item_data, "Liq"))
        pub == StrptimeIso(Get(item_data, "FechaPublicacion"))
        raw(k) == Get(item_data, k)
        dec(k) ==
            IF k = "Intercambio_Neto_Entre_Gerencias_MWh" /\ raw(k) = JStr("---")
            THEN [ok |-> TRUE, v |-> JNull]
            ELSE PyDecimal(raw(k))
        created == OptionalInstant(item_data, "FechaCreacion")
        updated == OptionalInstant(item_data, "FechaActualizacion")
        missing == Cardinality({k \in {"Sistema", "Area"} : raw(k).t = "null"})
        parsed ==
            [DiaOperacion |-> dia.v, Sistema |-> raw("Sistema"), Area |-> raw("Area"),
             Hora |-> hora.v, decimals |-> [k \in BalanceDecimalFields |-> dec(k).v],
             Liq |-> liq.v, FechaPublicacion |-> pub.v,
             FechaCreacion |-> created.given, FechaActualizacion |-> updated.given]
    IN
    IF ~ item_data.obj \/ dia.err # "ok" \/ ~ hora.ok \/ ~ liq.ok \/ pub.err # "ok"
       \/ (\E k \in BalanceDecimalFields : ~ dec(k).ok)
       \/ ~ created.ok \/ ~ updated.ok
    THEN [errors |-> 1, parsed |-> NoParsed]
    ELSE [errors |-> missing, parsed |-> parsed]

\* One pass of the loop: the item's messages join validation_errors, and its
\* record joins new_records_instances "if not validation_errors".
Collect(acc, one) ==
    LET errors == acc.validation_errors + one.errors
    IN  [validation_errors |-> errors,
         new_records_instances |->
            IF errors = 0 THEN Append(acc.new_records_instances, one.parsed)
            ELSE acc.new_records_instances]

RECURSIVE BalanceLoop(_, _, _)
BalanceLoop(data_list, index, acc) ==
    IF index > Len(data_list) THEN acc
    ELSE BalanceLoop(data_list, index + 1,
                     Collect(acc, BalanceParse(data_list[index])))

ServiceResult(table, raised, created) ==
    [table |-> table, raised |-> raised, created |-> created]

\* Except clauses that answer without rolling the session back.
ServiceCommittedNoRollback(table, created, done) ==
    IF done.err = "ok" THEN ServiceResult(done.table, "none", created)
    ELSE IF done.err = "integrity"
    THEN ServiceResult(done.table, "IntegrityError", 0)
    ELSE ServiceResult(done.table, "Exception", 0)

\* add_all and commit of the service, and its except clauses.
ServiceCommitted(table, created, done) ==
    IF done.err = "ok" THEN ServiceResult(done.table, "none", created)
    ELSE IF done.err = "integrity"
    THEN ServiceResult(Rollback(table, done.table), "IntegrityError", 0)
    ELSE ServiceResult(Rollback(table, done.table), "Exception", 0)

\* A service that commits the records it parsed whatever the loop reported.
BalanceLoopedLenient(table, t, fault, loop) ==
    ServiceCommitted(table, Len(loop.new_records_instances),
        CommitResult(BalanceFlush(table, loop.new_records_instances, t), fault))

\* create_demanda_records after its loop.
BalanceLooped(table, t, fault, loop) ==
    IF loop.validation_errors > 0 THEN ServiceResult(table, "DataValidationError", 0)
    ELSE ServiceCommitted(table, Len(loop.new_records_instances),
            CommitResult(BalanceFlush(table, loop.new_records_instances, t), fault))

\* A service without the lookup of the first record's FechaPublicacion.
CreateDemandaRecordsUnguarded(table, data_list, t, fault) ==
    IF data_list = <<>> THEN ServiceResult(table, "DataValidationError", 0)
    ELSE
    LET fecha_publicacion_str == Get(data_list[1], "FechaPublicacion")
        to_check == StrptimeIso(fecha_publicacion_str)
    IN
    IF ~ data_list[1].obj THEN ServiceResult(table, "Exception", 0)
    ELSE IF ~ Truthy(fecha_publicacion_str)
    THEN ServiceResult(table, "DataValidationError", 0)
    ELSE IF to_check.err = "type" THEN ServiceResult(table, "Exception", 0)
    ELSE IF to_check.err = "value" THEN ServiceResult(table, "DataValidationError", 0)
    ELSE
    BalanceLooped(table, t, fault,
                  BalanceLoop(data_list, 1,
                      [validation_errors |-> 0, new_records_instances |-> <<>>]))

\* create_demanda_records: the exception it raises ("none" when it returns)
\* and the number of records it returns.
CreateDemandaRecords(table, data_list, t, fault) ==
    IF data_list = <<>> THEN ServiceResult(table, "DataValidationError", 0)
    ELSE
    LET fecha_publicacion_str == Get(data_list[1], "FechaPublicacion")
        to_check == StrptimeIso(fecha_publicacion_str)
    IN
    IF ~ data_list[1].obj THEN ServiceResult(table, "Exception", 0)
    ELSE IF ~ Truthy(fecha_publicacion_str)
    THEN ServiceResult(table, "DataValidationError", 0)
    ELSE IF to_check.err = "type" THEN ServiceResult(table, "Exception", 0)
    ELSE IF to_check.err = "value" THEN ServiceResult(table, "DataValidationError", 0)
    ELSE IF \E r \in table : r.FechaPublicacion = to_check.v
    THEN ServiceResult(table, "PublicationDateExistsError", 0)
    ELSE
    BalanceLooped(table, t, fault,
                  BalanceLoop(data_list, 1,
                      [validation_errors |-> 0, new_records_instances |-> <<>>]))

\* ----------------------------------- POST demanda_real_balance
\* The except clauses shared by the two guarded batch endpoints.
HttpOfRaised(raised) ==
    CASE raised = "none" -> 201
      [] raised = "PublicationDateExistsError" -> 409
      [] raised = "DataValidationError" -> 400
      [] raised = "IntegrityError" -> 409
      [] OTHER -> 500

\* The endpoint's answer to what the service did.
ServiceResponse(res) ==
    [table |-> res.table, http |-> HttpOfRaised(res.raised),
     raised |-> res.raised, created |-> res.created]

\* add_demanda_records_batch from the parsed list to the response.
AddDemandaRecordsBatchOutcome(table, data, t, fault) ==
    IF data = <<>>
    THEN [table |-> table, http |-> 400, raised |-> "none", created |-> 0]
    ELSE ServiceResponse(CreateDemandaRecords(table, data, t, fault))


\* --------------------------------------------- table ImpExpLiquidada
ImpExpSistemaMax == 3
ImpExpEnlaceMax == 50

ImportParts ==
    {"Importacion_Comercial_MWh", "Importacion_Pago_Energia_Inadvertida_MWh",
     "Importacion_Confiabilidad_MWh", "Importacion_CIL_MWh"}

ImpExpDecimalFields ==
    ImportParts \cup
    {"Importacion_Total_MWh", "Exportacion_Comercial_MWh",
     "Exportacion_Cobro_Energia_Inadvertida_MWh", "Exportacion_Confiabilidad_MWh",
     "Exportacion_CIL_MWh", "Exportacion_Total_MWh"}

RECURSIVE SumOver(_, _)
SumOver(keys, f) ==
    IF keys = {} THEN 0
    ELSE LET k == CHOOSE x \in keys : TRUE IN f[k].n + SumOver(keys \ {k}, f)

\* chk_importacion_total
ImportTotalOk(decimals) ==
    SumOver(ImportParts, decimals) = decimals["Importacion_Total_MWh"].n

NextImpExpId(table) ==
    IF table = {} THEN 1
    ELSE 1 + (CHOOSE m \in {r.Id : r \in table} : \A r \in table : r.Id <= m)

ImpExpRow(p, id, t) ==
    [Id |-> id, DiaOperacion |-> p.DiaOperacion,
     Fecha_Publicacion |-> p.Fecha_Publicacion, Sistema |-> PyStr(p.Sistema),
     Liquidacion |-> DbInt(p.Liquidacion).v,
     EnlaceInternacional |-> PyStr(p.EnlaceInternacional),
     HoraOperacion |-> p.HoraOperacion, decimals |-> p.decimals,
     Fecha_Creacion |-> ServerDefault(p.Fecha_Creacion, t),
     Fecha_Actualizacion |-> ServerDefault(p.Fecha_Actualizacion, t)]

RECURSIVE ImpExpFlush(_, _, _)

\* The INSERT of one row: the NOT NULL decimals, the columns' types and
\* lengths and chk_importacion_total, then the rest of the pending records.
ImpExpInsert(table, pending, t, p, row) ==
    IF \E k \in ImpExpDecimalFields : p.decimals[k].t = "null"
    THEN [err |-> "integrity", table |-> table]
    ELSE IF ~ DbInt(p.Liquidacion).ok \/ Len(row.Sistema) > ImpExpSistemaMax
            \/ Len(row.EnlaceInternacional) > ImpExpEnlaceMax
    THEN [err |-> "data", table |-> table]
    ELSE IF ~ ImportTotalOk(p.decimals)
    THEN [err |-> "integrity", table |-> table]
    ELSE ImpExpFlush(table \cup {row}, Tail(pending), t)

ImpExpFlush(table, pending, t) ==
    IF pending = <<>> THEN [err |-> "ok", table |-> table]
    ELSE ImpExpInsert(table, pending, t, Head(pending),
                      ImpExpRow(Head(pending), NextImpExpId(table), t))

\* -------------------------- create_import_export_records (the service)
ImpExpParse(item_data) ==
    LET dia == StrptimeIso(Get(item_data, "DiaOperacion"))
        pub == StrptimeIso(Get(item_data, "Fecha_Publicacion"))
        hora == PyInt(Get(item_data, "HoraOperacion"))
        raw(k) == Get(item_data, k)
        created == OptionalInstant(item_data, "Fecha_Creacion")
        updated == OptionalInstant(item_data, "Fecha_Actualizacion")
        missing == Cardinality({k \in {"Sistema", "Liquidacion", "EnlaceInternacional"} :
                                    raw(k).t = "null"})
        parsed ==
            [DiaOperacion |-> dia.v, Fecha_Publicacion |-> pub.v,
             Sistema |-> raw("Sistema"), Liquidacion |-> raw("Liquidacion"),
             EnlaceInternacional |-> raw("EnlaceInternacional"),
             HoraOperacion |-> hora.v,
             decimals |-> [k \in ImpExpDecimalFields |-> PyDecimal(raw(k)).v],
             Fecha_Creacion |-> created.given, Fecha_Actualizacion |-> updated.given]
    IN
    IF ~ item_data.obj \/ dia.err # "ok" \/ pub.err # "ok" \/ ~ hora.ok
       \/ (\E k \in ImpExpDecimalFields : ~ PyDecimal(raw(k)).ok)
       \/ ~ created.ok \/ ~ updated.ok
    THEN [errors |-> 1, parsed |-> NoParsed]
    ELSE [errors |-> missing, parsed |-> parsed]

RECURSIVE ImpExpLoop(_, _, _)
ImpExpLoop(data_list, index, acc) ==
    IF index > Len(data_list) THEN acc
    ELSE ImpExpLoop(data_list, index + 1,
                    Collect(acc, ImpExpParse(data_list[index])))

\* create_import_export_records after its loop.
ImpExpLooped(table, t, fault, loop) ==
    IF loop.validation_errors > 0 THEN ServiceResult(table, "DataValidationError", 0)
    ELSE ServiceCommitted(table, Len(loop.new_records_instances),
            CommitResult(ImpExpFlush(table, loop.new_records_instances, t), fault))

CreateImportExportRecords(table, data_list, t, fault) ==
    IF data_list = <<>> THEN ServiceResult(table, "DataValidationError", 0)
    ELSE
    LET fecha_publicacion_str == Get(data_list[1], "Fecha_Publicacion")
        to_check == StrptimeIso(fecha_publicacion_str)
    IN
    IF ~ data_list[1].obj THEN ServiceResult(table, "Exception", 0)
    ELSE IF ~ Truthy(fecha_publicacion_str)
    THEN ServiceResult(table, "DataValidationError", 0)
    ELSE IF to_check.err = "type" THEN ServiceResult(table, "Exception", 0)
    ELSE IF to_check.err = "value" THEN ServiceResult(table, "DataValidationError", 0)
    ELSE IF \E r \in table : r.Fecha_Publicacion = to_check.v
    THEN ServiceResult(table, "PublicationDateExistsError", 0)
    ELSE
    ImpExpLooped(table, t, fault,
                 ImpExpLoop(data_list, 1,
                     [validation_errors |-> 0, new_records_instances |-> <<>>]))

\* ----------------------------------------- POST import_export_liq
\* add_import_export_liq from the parsed list to the response.
AddImportExportLiqOutcome(table, data, t, fault) ==
    IF data = <<>>
    THEN [table |-> table, http |-> 400, raised |-> "none", created |-> 0]
    ELSE ServiceResponse(CreateImportExportRecords(table, data, t, fault))


\* =================================================== request bodies
\* All sequences over S of length at most n.
RECURSIVE SeqsUpTo(_, _)
SeqsUpTo(S, n) ==
    IF n = 0 THEN {<<>>}
    ELSE LET shorter == SeqsUpTo(S, n - 1)
         IN  shorter \cup {Append(q, x) : q \in {r \in shorter : Len(r) = n - 1}, x \in S}

\* ---- demand
DemandObject(fecha, hora, gerencia, demanda_, generacion, sistema) ==
    [obj |-> TRUE,
     f |-> [FechaOperacion |-> fecha, HoraOperacion |-> hora, Gerencia |-> gerencia,
            Demanda |-> demanda_, Generacion |-> generacion, Pronostico |-> JInt(5),
            Enlace |-> Absent, Sistema |-> sistema]]

DemandNotObject ==
    [obj |-> FALSE,
     f |-> [FechaOperacion |-> Absent, HoraOperacion |-> Absent, Gerencia |-> Absent,
            Demanda |-> Absent, Generacion |-> Absent, Pronostico |-> Absent,
            Enlace |-> Absent, Sistema |-> Absent]]

D1 == JStr("2024-03-01")
Nor == JStr("Noroeste")
\* 21 characters, one more than the Gerencia column holds
LongGerencia == JStr("Noroeste-Peninsular-X")

\* Bodies of the single-record endpoint: every payload at one business key,
\* every key shape with one payload, and the malformed ones.
DemandSingleItems ==
    {DemandObject(D1, JInt(10), Nor, d, g, s) :
        d \in {JInt(1500), JStr("1500"), JInt(1600), JNull},
        g \in {JInt(7), JInt(8)},
        s \in {Absent, JStr("SIN")}}
    \cup {DemandObject(D1, h, Nor, JInt(1500), JInt(7), Absent) :
        h \in {JInt(-1), JInt(0), JInt(23), JInt(24), JInt(25), JStr("10"),
               JStr("x"), JNull}}
    \cup {DemandObject(JStr("2024-13-01"), JInt(10), Nor, JInt(1500), JInt(7), Absent),
          DemandObject(Absent, JInt(10), Nor, JInt(1500), JInt(7), Absent),
          DemandObject(D1, JInt(10), Absent, JInt(1500), JInt(7), Absent),
          DemandObject(D1, JInt(10), Nor, JInt(1500), JInt(7), JNull),
          DemandObject(D1, JInt(10), Nor, JStr("abc"), JInt(7), Absent),
          DemandObject(D1, JInt(10), LongGerencia, JInt(1500), JInt(7), Absent),
          DemandNotObject}

DemandBulkItems ==
    {DemandObject(D1, JInt(10), Nor, JInt(1500), JInt(7), Absent),
     DemandObject(D1, JInt(23), Nor, JStr("1600"), JInt(7), JStr("SIN")),
     DemandObject(D1, JInt(25), Nor, JInt(1500), JInt(7), Absent),
     DemandObject(D1, JInt(10), Absent, JInt(1500), JInt(7), Absent),
     DemandObject(D1, JInt(0), Nor, JStr("abc"), JInt(7), Absent),
     DemandNotObject}

\* ---- price
PnxObject(sistema, fecha, hora, clave, pml) ==
    [obj |-> TRUE,
     f |-> [Sistema |-> sistema, Fecha |-> fecha, Hora |-> hora, Clave |-> clave,
            PML |-> pml, Energia |-> JInt(1), Congestion |-> Absent,
            Perdidas |-> JNull]]

PnxNotObject ==
    [obj |-> FALSE,
     f |-> [Sistema |-> Absent, Fecha |-> Absent, Hora |-> Absent, Clave |-> Absent,
            PML |-> Absent, Energia |-> Absent, Congestion |-> Absent,
            Perdidas |-> Absent]]

Sin == JStr("SIN")
N1 == JStr("01PLA-115")

PnxItems ==
    {PnxObject(Sin, D1, JInt(0), N1, JInt(50)),
     PnxObject(Sin, D1, JStr("24"), N1, JStr("50.25")),
     PnxObject(Sin, D1, JInt(1), N1, JStr("abc")),
     PnxObject(Sin, D1, JInt(-1), N1, JInt(50)),
     PnxObject(Sin, D1, JInt(25), N1, JInt(50)),
     PnxObject(Sin, JStr("01/03/2024"), JInt(1), N1, JInt(50)),
     PnxObject(Sin, D1, JInt(1), Absent, JInt(50)),
     PnxObject(Sin, D1, JInt(1), JStr("123456789012345678901"), JInt(50)),
     PnxNotObject}

\* data_type tokens of the requests
Tokens == {"PML_MDA", "pnd_mtr", "demanda"}

\* ---- transfer capacity
CapObject(sistema, fecha, enlace, horario, cap) ==
    [obj |-> TRUE,
     f |-> [Sistema |-> sistema, FechaOperacion |-> fecha, Enlace |-> enlace,
            Horario |-> horario,
            CapTransDisImpComMwh |-> cap, CapResImpEneInadMwh |-> JInt(0),
            CapResImpConfMWh |-> JInt(0), CapAbsTransDisImpMWh |-> JInt(0),
            CapTransDisExpComMwh |-> JStr("7"), CapResExpEneInaMwh |-> JInt(0),
            CapResExpConfMwh |-> JInt(0), CapAbsTransDisExpMwh |-> JInt(0)]]

E1 == JStr("ENL-01")

CapItems ==
    {CapObject(Sin, D1, E1, JInt(1), JInt(10)),
     CapObject(Sin, D1, E1, JInt(24), JInt(10)),
     CapObject(Sin, D1, E1, JInt(0), JInt(10)),
     CapObject(Sin, D1, E1, JInt(25), JInt(10)),
     CapObject(Sin, D1, E1, JInt(1), JStr("x")),
     CapObject(Sin, D1, E1, JInt(1), Absent),
     CapObject(JStr("SINX"), D1, E1, JInt(1), JInt(10)),
     CapObject(Sin, D1, JStr("123456789012345678901234567890123"), JInt(1), JInt(10))}

\* ---- real balance
BalanceObject(dia, area, hora, generacion, intercambio, liq, pub, creacion) ==
    [obj |-> TRUE,
     f |-> [DiaOperacion |-> dia, Sistema |-> Sin, Area |-> area, Hora |-> hora,
            Generacion_MWh |-> generacion, Importacion_Total_MWh |-> JInt(0),
            Exportacion_Total_MWh |-> JNull,
            Intercambio_Neto_Entre_Gerencias_MWh |-> intercambio,
            Estimacion_Demanda_Por_Balance_MWh |-> JStr("50.25"),
            Liq |-> liq, FechaPublicacion |-> pub,
            FechaCreacion |-> creacion, FechaActualizacion |-> Absent]]

BalanceNotObject ==
    [obj |-> FALSE,
     f |-> [k \in {"DiaOperacion", "Sistema", "Area", "Hora", "Liq",
                   "FechaPublicacion", "FechaCreacion", "FechaActualizacion"}
                  \cup BalanceDecimalFields |-> Absent]]

Dmy1 == JStr("01/03/2024")
D2 == JStr("2024-03-02")
Cen == JStr("CEN")

BalanceItems ==
    {BalanceObject(Dmy1, Cen, JInt(1), JInt(10), JStr("---"), JInt(0), D1, Absent),
     BalanceObject(Dmy1, Cen, JInt(1), JInt(10), JInt(2), JInt(1), D2,
                   JStr("2020-01-01T00:00:00")),
     BalanceObject(Dmy1, Cen, JInt(2), JStr("abc"), JInt(2), JInt(0), D1, Absent),
     BalanceObject(Dmy1, Cen, JInt(2), JInt(10), JInt(2), JInt(0), D1, Absent),
     BalanceObject(Dmy1, Cen, JInt(1), JInt(10), JInt(2), JInt(4), D1, Absent),
     BalanceObject(Dmy1, JNull, JInt(1), JInt(10), JInt(2), JInt(0), D1, Absent),
     BalanceNotObject}

\* ---- import/export
ImpExpObject(dia, pub, hora, total, creacion) ==
    [obj |-> TRUE,
     f |-> [DiaOperacion |-> dia, Fecha_Publicacion |-> pub, Sistema |-> Sin,
            Liquidacion |-> JInt(0), EnlaceInternacional |-> E1,
            HoraOperacion |-> hora,
            Importacion_Comercial_MWh |-> JInt(1),
            Importacion_Pago_Energia_Inadvertida_MWh |-> JInt(1),
            Importacion_Confiabilidad_MWh |-> JInt(1),
            Importacion_CIL_MWh |-> JInt(1),
            Importacion_Total_MWh |-> total,
            Exportacion_Comercial_MWh |-> JInt(0),
            Exportacion_Cobro_Energia_Inadvertida_MWh |-> JInt(0),
            Exportacion_Confiabilidad_MWh |-> JInt(0),
            Exportacion_CIL_MWh |-> JInt(0),
            Exportacion_Total_MWh |-> JInt(0),
            Fecha_Creacion |-> creacion, Fecha_Actualizacion |-> Absent]]

ImpExpNotObject ==
    [obj |-> FALSE,
     f |-> [k \in {"DiaOperacion", "Fecha_Publicacion", "Sistema", "Liquidacion",
                   "EnlaceInternacional", "HoraOperacion", "Fecha_Creacion",
                   "Fecha_Actualizacion"} \cup ImpExpDecimalFields |-> Absent]]

ImpExpItems ==
    {ImpExpObject(D1, D1, JInt(1), JInt(4), Absent),
     ImpExpObject(D1, D2, JInt(1), JStr("4"), JStr("2020-01-01T00:00:00")),
     ImpExpObject(D1, D1, JInt(1), JInt(5), Absent),
     ImpExpObject(D1, D1, JStr("x"), JInt(4), Absent),
     ImpExpObject(D1, D1, JInt(1), JNull, Absent),
     ImpExpNotObject}

\* The JSON lists the model posts to each batch endpoint.
DemandBulkBodies == SeqsUpTo(DemandBulkItems, MaxBatch)
PnxBodies == SeqsUpTo(PnxItems, MaxBatch)
CapBodies == SeqsUpTo(CapItems, MaxBatch)
BalanceBodies == SeqsUpTo(BalanceItems, MaxBatch)
ImpExpBodies == SeqsUpTo(ImpExpItems, MaxBatch)

\* The lists of at most one item among them.
Brief(bodies) == {b \in bodies : Len(b) <= 1}

\* The requests to the price endpoint, as <<data_type, list>>: every list goes
\* to one data type, the lists of at most one item to every token.
PnxRequests(bodies) ==
    ({"PML_MDA"} \X bodies) \cup (Tokens \X Brief(bodies))

\* ============================================================ behaviour
\* `last` is the exchange the client still holds: its request and the
\* response it got.  A client holding one follows it up (resubmits it; on the
\* single-record endpoint also with one field changed) or forgets it.
Exchange(ep, token, body, resp) ==
    [ep |-> ep, token |-> token, payload |-> "list", body |-> body, resp |-> resp]

\* What a request to the price endpoint carries: a JSON list, a body whose
\* Content-Type is not application/json, a JSON body that does not parse, or
\* a JSON value that is not a list.
Payloads == {"list", "not_json", "bad_json", "not_list"}

NoExchange == Exchange("none", "", <<>>, [http |-> 0])

\* The server's workers (threads or processes), each serving one request at
\* a time with a session and a transaction of its own.
Workers == 1 .. MaxInFlight

Idle == [pc |-> "idle", body |-> <<>>, found |-> {}]

\* The values a follow-up gives to one field of a demand record.
FollowUpValues(k) ==
    CASE k = "Demanda" -> {JInt(1500), JStr("1500"), JInt(1600), JNull, JStr("abc")}
      [] k = "Generacion" -> {JInt(7), JInt(8)}
      [] k = "Pronostico" -> {JInt(5), Absent}
      [] k = "Enlace" -> {Absent, JInt(3)}
      [] k = "Sistema" -> {Absent, JStr("SIN"), JStr("BCA")}

\* The bodies a request to endpoint ep may carry: any of `fresh` when the
\* client holds no exchange, a follow-up of the one it holds otherwise.
Bodies(ep, fresh) ==
    IF last.ep = "none" THEN fresh
    ELSE IF last.ep # ep THEN {}
    ELSE IF ep \in {"single", "single_app"} /\ last.body[1].obj
    THEN {last.body} \cup
         UNION {{<<[last.body[1] EXCEPT !.f[k] = v]>> : v \in FollowUpValues(k)} :
                  k \in {"Demanda", "Generacion", "Pronostico", "Enlace", "Sistema"}}
    ELSE {last.body}

Init ==
    /\ demanda = {}
    /\ pnx = [m \in DataTypeModels |-> {}]
    /\ capacidad = {}
    /\ balance = {}
    /\ impexp = {}
    /\ now = 0
    /\ last = NoExchange
    /\ inflight = [w \in Workers |-> Idle]

\* The client drops the exchange it holds.
Forget ==
    /\ last.ep # "none"
    /\ last' = NoExchange
    /\ UNCHANGED <<demanda, pnx, capacidad, balance, impexp, now, inflight>>

\* POST /api/v1/demanda  (app/api/v1/demand.py)
SubmitDataSingle ==
    /\ now < MaxRequests
    /\ \E body \in Bodies("single", {<<i>> : i \in DemandSingleItems}), fault \in BOOLEAN :
        LET out == SubmitDataSingleOutcome(demanda, body[1], now, fault, DemandHoraMax)
        IN  /\ demanda' = out.table
            /\ last' = Exchange("single", "", body,
                                [http |-> out.http, status |-> out.status,
                                 action |-> out.action, commit |-> out.commit])
    /\ now' = now + 1
    /\ UNCHANGED <<pnx, capacidad, balance, impexp, inflight>>

\* POST /api/v1/demanda of the monolithic app.py
SubmitDataSingleApp ==
    /\ now < MaxRequests
    /\ \E body \in Bodies("single_app", {<<i>> : i \in DemandSingleItems}),
          fault \in BOOLEAN :
        LET out == SubmitDataSingleOutcome(demanda, body[1], now, fault,
                                           DemandHoraMaxApp)
        IN  /\ demanda' = out.table
            /\ last' = Exchange("single_app", "", body,
                                [http |-> out.http, status |-> out.status,
                                 action |-> out.action, commit |-> out.commit])
    /\ now' = now + 1
    /\ UNCHANGED <<pnx, capacidad, balance, impexp, inflight>>

\* POST /api/v1/demanda on a server with several workers, first half: worker
\* w takes a request, validates it and runs the lookup in its own session.
\* A request that fails validation is answered at once.
SubmitDataSingleBegin(items) ==
    /\ now < MaxRequests
    /\ \E w \in Workers, item \in items :
        /\ inflight[w].pc = "idle"
        /\ IF SingleRejected(item, DemandHoraMax)
           THEN /\ last' = Exchange("single", "", <<item>>,
                                    [http |-> 400, status |-> "error",
                                     action |-> "", commit |-> "none"])
                /\ inflight' = inflight
           ELSE /\ inflight' = [inflight EXCEPT ![w] =
                                   [pc |-> "looked", body |-> <<item>>,
                                    found |-> SingleLookup(demanda, item)]]
                /\ last' = last
    /\ now' = now + 1
    /\ UNCHANGED <<demanda, pnx, capacidad, balance, impexp>>

\* Second half: worker w acts on what its lookup loaded (INSERT, UPDATE or
\* CONFLICT), commits against the table as it is now, and answers.
SubmitDataSingleEnd ==
    /\ \E w \in Workers, fault \in BOOLEAN :
        /\ inflight[w].pc = "looked"
        /\ LET out == SingleWrite(demanda, inflight[w].found,
                                  inflight[w].body[1], now, fault)
           IN  /\ demanda' = out.table
               /\ last' = Exchange("single", "", inflight[w].body,
                                   [http |-> out.http, status |-> out.status,
                                    action |-> out.action, commit |-> out.commit])
        /\ inflight' = [inflight EXCEPT ![w] = Idle]
    /\ UNCHANGED <<pnx, capacidad, balance, impexp, now>>

\* POST /api/v1/demanda/bulk
SubmitDataBulk(bodies) ==
    /\ now < MaxRequests
    /\ \E records_list \in Bodies("bulk", bodies), fault \in BOOLEAN :
        LET out == SubmitDataBulkOutcome(demanda, records_list, now, fault)
        IN  /\ demanda' = out.table
            /\ last' = Exchange("bulk", "", records_list,
                                [http |-> out.http, status |-> out.status,
                                 has_summary |-> out.has_summary,
                                 summary |-> out.summary, results |-> out.results,
                                 session |-> out.session, commit |-> out.commit])
    /\ now' = now + 1
    /\ UNCHANGED <<pnx, capacidad, balance, impexp, inflight>>

BatchResponse(out) ==
    [http |-> out.http, status |-> out.status, summary |-> out.summary,
     errors |-> out.errors, objects_to_insert |-> out.objects_to_insert,
     commit |-> out.commit]

\* "1. Validate Request is JSON and is a List": the status the handler
\* returns for a body it does not read as a list (get_json raises on a body
\* that does not parse, and the handler catches it), 0 for a list.
PnxBodyRejection(payload) ==
    CASE payload = "not_json" -> 415
      [] payload \in {"bad_json", "not_list"} -> 400
      [] OTHER -> 0

\* POST /api/v1/mda_mtr/<data_type>
SubmitGenericBatchInsertOnly(bodies) ==
    /\ now < MaxRequests
    /\ \E req \in PnxRequests(Bodies("price", bodies)), payload \in Payloads,
          fault \in BOOLEAN :
        LET data_type == req[1]
            records_list == req[2]
            model_key == Lower(data_type)
            refused(http) ==
                [Exchange("price", data_type, records_list,
                          [http |-> http, status |-> "error", commit |-> "none"])
                     EXCEPT !.payload = payload]
        IN
        /\ last.ep = "price" => data_type = last.token /\ payload = last.payload
        /\ payload # "list" => records_list = <<>> /\ ~ fault
        /\ IF model_key \notin DataTypeModels
           THEN /\ pnx' = pnx
                /\ last' = refused(404)
           ELSE IF PnxBodyRejection(payload) # 0
           THEN /\ pnx' = pnx
                /\ last' = refused(PnxBodyRejection(payload))
           ELSE LET out == SubmitGenericBatchOutcome(pnx[model_key], records_list,
                                                     fault)
                IN  /\ pnx' = [pnx EXCEPT ![model_key] = out.table]
                    /\ last' = Exchange("price", data_type, records_list,
                                        BatchResponse(out))
    /\ now' = now + 1
    /\ UNCHANGED <<demanda, capacidad, balance, impexp, inflight>>

\* POST /api/v1/capacidad_transferencia
SubmitCapacidadTransferenciaBatch(bodies) ==
    /\ now < MaxRequests
    /\ \E records_list \in Bodies("capacity", bodies), fault \in BOOLEAN :
        LET out == SubmitCapacidadBatchOutcome(capacidad, records_list, now, fault)
        IN  /\ capacidad' = out.table
            /\ last' = Exchange("capacity", "", records_list, BatchResponse(out))
    /\ now' = now + 1
    /\ UNCHANGED <<demanda, pnx, balance, impexp, inflight>>

\* POST /api/v1/demanda_real_balance
AddDemandaRecordsBatch(bodies) ==
    /\ now < MaxRequests
    /\ \E data \in Bodies("balance", bodies), fault \in BOOLEAN :
        LET out == AddDemandaRecordsBatchOutcome(balance, data, now, fault)
        IN  /\ balance' = out.table
            /\ last' = Exchange("balance", "", data,
                                [http |-> out.http, raised |-> out.raised,
                                 created |-> out.created])
    /\ now' = now + 1
    /\ UNCHANGED <<demanda, pnx, capacidad, impexp, inflight>>

\* POST /api/v1/import_export_liq
AddImportExportLiq(bodies) ==
    /\ now < MaxRequests
    /\ \E data \in Bodies("impexp", bodies), fault \in BOOLEAN :
        LET out == AddImportExportLiqOutcome(impexp, data, now, fault)
        IN  /\ impexp' = out.table
            /\ last' = Exchange("impexp", "", data,
                                [http |-> out.http, raised |-> out.raised,
                                 created |-> out.created])
    /\ now' = now + 1
    /\ UNCHANGED <<demanda, pnx, capacidad, balance, inflight>>

\* The demand endpoints.
NextDemand ==
    \/ SubmitDataSingle
    \/ SubmitDataSingleApp
    \/ SubmitDataBulk(DemandBulkBodies)
    \/ Forget

\* The insert-only batches of prices and transfer capacities.
NextBatch ==
    \/ SubmitGenericBatchInsertOnly(PnxBodies)
    \/ SubmitCapacidadTransferenciaBatch(CapBodies)
    \/ Forget

\* Every ingestion endpoint, on lists of at most one item.
Next ==
    \/ SubmitDataSingle
    \/ SubmitDataSingleApp
    \/ SubmitDataBulk(Brief(DemandBulkBodies))
    \/ SubmitGenericBatchInsertOnly(Brief(PnxBodies))
    \/ SubmitCapacidadTransferenciaBatch(Brief(CapBodies))
    \/ AddDemandaRecordsBatch(Brief(BalanceBodies))
    \/ AddImportExportLiq(Brief(ImpExpBodies))
    \/ Forget

SpecDemand == Init /\ [][NextDemand]_vars
SpecBatch == Init /\ [][NextBatch]_vars
Spec == Init /\ [][Next]_vars

\* Lists that mix a valid record with an invalid one, for every batch
\* endpoint: one valid record and one record its validation refuses.
DemandMixBodies ==
    SeqsUpTo({x \in DemandBulkItems :
                 /\ x.obj /\ x.f["Gerencia"] = Nor
                 /\ x.f["Demanda"] = JInt(1500)},
             MaxBatch)

PnxMixBodies ==
    SeqsUpTo({x \in PnxItems :
                 x.obj /\ x.f["Hora"] \in {JInt(0), JInt(25)}},
             MaxBatch)

CapMixBodies ==
    SeqsUpTo({x \in CapItems :
                 /\ x.f["Horario"] \in {JInt(1), JInt(0)}
                 /\ x.f["CapTransDisImpComMwh"] = JInt(10)
                 /\ x.f["Sistema"] = Sin /\ x.f["Enlace"] = E1},
             MaxBatch)

BalanceMixBodies ==
    SeqsUpTo({x \in BalanceItems :
                 /\ x.obj /\ x.f["Generacion_MWh"] = JInt(10)
                 /\ x.f["Liq"] = JInt(0)},
             MaxBatch)

ImpExpMixBodies ==
    SeqsUpTo({x \in ImpExpItems :
                 x.obj /\ x.f["Importacion_Total_MWh"] = JInt(4)},
             MaxBatch)

\* Every batch endpoint on the mixed lists.
NextLists ==
    \/ SubmitDataBulk(DemandMixBodies)
    \/ SubmitGenericBatchInsertOnly(PnxMixBodies)
    \/ SubmitCapacidadTransferenciaBatch(CapMixBodies)
    \/ AddDemandaRecordsBatch(BalanceMixBodies)
    \/ AddImportExportLiq(ImpExpMixBodies)
    \/ Forget

\* The publication-date-guarded batches.
NextGuarded ==
    \/ AddDemandaRecordsBatch(BalanceBodies)
    \/ AddImportExportLiq(ImpExpBodies)
    \/ Forget

\* Lists of up to MaxBatch + 1 records over two keys per endpoint, so that a
\* list can repeat one key next to a record of the other key.
DemandCollideBodies ==
    SeqsUpTo({x \in DemandBulkItems :
                 x.obj /\ x.f["Gerencia"] = Nor /\ x.f["Generacion"] = JInt(7)
                 /\ x.f["HoraOperacion"] \in {JInt(10), JInt(23)}}, MaxBatch + 1)
PnxCollideBodies ==
    SeqsUpTo({x \in PnxItems :
                 x.obj /\ x.f["Clave"] = N1 /\ x.f["Fecha"] = D1
                 /\ x.f["Hora"] \in {JInt(0), JStr("24")}}, MaxBatch + 1)

NextCollide ==
    \/ SubmitDataBulk(DemandCollideBodies)
    \/ SubmitGenericBatchInsertOnly(PnxCollideBodies)
    \/ Forget

\* Single-record upserts served by concurrent workers: two payloads of one
\* business key, one record of another key and one record with a bad hour.
DemandRaceItems ==
    {x \in DemandSingleItems :
        /\ x.obj /\ x.f["Gerencia"] = Nor /\ x.f["Sistema"] = Absent
        /\ x.f["Generacion"] = JInt(7)
        /\ \/ x.f["HoraOperacion"] = JInt(10) /\ x.f["Demanda"] \in {JInt(1500), JInt(1600)}
           \/ x.f["HoraOperacion"] \in {JInt(0), JInt(25)}}

\* Price lists over one complete record and the records that carry null in
\* one business-key field.
PnxNullBodies ==
    SeqsUpTo({PnxObject(Sin, D1, JInt(1), N1, JInt(50)),
              PnxObject(JNull, D1, JInt(1), N1, JInt(50)),
              PnxObject(Sin, JNull, JInt(1), N1, JInt(50)),
              PnxObject(Sin, D1, JNull, N1, JInt(50)),
              PnxObject(Sin, D1, JInt(1), JNull, JInt(50))}, MaxBatch)

NextNulls ==
    \/ SubmitGenericBatchInsertOnly(PnxNullBodies)
    \/ Forget

NextRace ==
    \/ SubmitDataSingleBegin(DemandRaceItems)
    \/ SubmitDataSingleEnd

SpecLists == Init /\ [][NextLists]_vars
SpecRace == Init /\ [][NextRace]_vars
SpecNulls == Init /\ [][NextNulls]_vars
SpecCollide == Init /\ [][NextCollide]_vars
SpecGuarded == Init /\ [][NextGuarded]_vars

\* ================================================================ claims
\* ---- vocabulary of the demand claims
IsSingle(e) == e.ep \in {"single", "single_app"}

HoraMaxOf(ep) == IF ep = "single" THEN DemandHoraMax ELSE DemandHoraMaxApp

MeasurementFields == {"Demanda", "Generacion", "Pronostico", "Enlace"}

\* A JSON value that is a number, a numeral or no value.
Numeric(v) ==
    \/ v.t \in {"null", "absent", "int"}
    \/ v.t = "str" /\ v.s \in DOMAIN IntOfText

\* The integer (or no value) a numeric JSON value denotes.
Typed(v) ==
    IF v.t \in {"null", "absent"} THEN JNull
    ELSE IF v.t = "int" THEN v
    ELSE JInt(IntOfText[v.s])

\* A demand record the endpoint with upper hour bound horaMax must accept.
ValidDemandRecord(item, horaMax) ==
    /\ item.obj
    /\ item.f["FechaOperacion"].t = "str" /\ item.f["FechaOperacion"].s \in IsoDates
    /\ item.f["HoraOperacion"].t \in {"int", "str"}
    /\ Numeric(item.f["HoraOperacion"])
    /\ Typed(item.f["HoraOperacion"]).n \in DemandHoraMin .. horaMax
    /\ item.f["Gerencia"].t = "str"
    /\ Len(item.f["Gerencia"].s) <= DemandGerenciaMax
    /\ \A k \in MeasurementFields : Numeric(item.f[k])
    /\ \/ item.f["Sistema"].t = "absent"
       \/ item.f["Sistema"].t = "str" /\ Len(item.f["Sistema"].s) <= DemandSistemaMax

DemandKeyOf(item) ==
    <<DateOfIso(item.f["FechaOperacion"].s), Typed(item.f["HoraOperacion"]).n,
      item.f["Gerencia"].s>>

RowsOf(table, item) == {r \in table : DemandKey(r) = DemandKeyOf(item)}

\* A step in which the single-record endpoint answers a valid record without
\* a storage fault.
SingleStep ==
    /\ IsSingle(last') /\ now' = now + 1
    /\ ValidDemandRecord(last'.body[1], HoraMaxOf(last'.ep))
    /\ last'.resp.commit \notin {"operational"}

\* C1 (as the spec states it): a valid record submitted to the single-record
\* upsert while no row has its business key is answered 'inserted' (201), the
\* same payload submitted again is answered 'conflict' with action 'none'
\* (409), and after each call exactly one row has that business key.
C1_TwiceIdentical ==
    [][ /\ (SingleStep /\ RowsOf(demanda, last'.body[1]) = {})
            => /\ last'.resp.action = "inserted" /\ last'.resp.http = 201
               /\ Cardinality(RowsOf(demanda', last'.body[1])) = 1
        /\ (SingleStep /\ last.ep = last'.ep /\ last.resp.action = "inserted"
                /\ last'.body = last.body)
            => /\ last'.resp.status = "conflict" /\ last'.resp.action = "none"
               /\ last'.resp.http = 409
               /\ Cardinality(RowsOf(demanda', last'.body[1])) = 1
      ]_vars

\* ---- C2
\* The measurement fields in which the resubmitted record differs, as typed
\* values, from the one submitted before.
ChangedFields(old, new) ==
    {k \in MeasurementFields : Typed(old.f[k]) # Typed(new.f[k])}

\* A step that resubmits the stored record with exactly one measurement field
\* changed and everything else as it was.
ResubmitOneChanged ==
    /\ SingleStep /\ last.ep = last'.ep
    /\ last.resp.action \in {"inserted", "updated"}
    /\ Cardinality(ChangedFields(last.body[1], last'.body[1])) = 1
    /\ \A k \in DOMAIN last.body[1].f :
          k \notin MeasurementFields => last'.body[1].f[k] = last.body[1].f[k]

\* C2: when a stored record is resubmitted to the single-record upsert with
\* exactly one measurement field (Demanda, Generacion, Pronostico, Enlace)
\* changed, the call reports 'updated' (200) and the row afterwards is the row
\* before with that field set to the new value and the modification time
\* advanced: id, business key, Sistema, creation time and the other
\* measurement fields are unchanged, and no row is added.
C2_UpdateTouchesOnlyChangedField ==
    [][ ResubmitOneChanged =>
          /\ last'.resp.action = "updated" /\ last'.resp.http = 200
          /\ \E r \in RowsOf(demanda, last'.body[1]) :
               \E k \in ChangedFields(last.body[1], last'.body[1]) :
                  demanda' = (demanda \ {r}) \cup
                      {[r EXCEPT ![k] = Typed(last'.body[1].f[k]),
                                 !.FechaModificacion = now]}
      ]_vars

\* An update has happened: the row carries the new value and a modification
\* time later than its creation time, under the id it was created with.
C2_Witness ==
    /\ IsSingle(last) /\ last.resp.action = "updated"
    /\ Cardinality(ChangedFields(
           DemandObject(D1, JInt(10), Nor, JInt(1500), JInt(7), Absent),
           last.body[1])) = 1
    /\ \E r \in RowsOf(demanda, last.body[1]) :
          /\ r.id = 1 /\ r.FechaModificacion > r.FechaCreacion
          /\ \A k \in MeasurementFields : r[k] = Typed(last.body[1].f[k])

\* ---- C8
BulkWithInvalidItems ==
    /\ last.ep = "bulk" /\ last.resp.has_summary
    /\ last.resp.summary.records_with_validation_errors > 0

Routed(e) ==
    \/ e.ep = "capacity"
    \/ e.ep = "price" /\ Lower(e.token) \in DataTypeModels /\ e.payload = "list"

IntLike(v) ==
    \/ v.t = "int"
    \/ v.t = "str" /\ v.s \in DOMAIN IntOfText

IntOf(v) == IF v.t = "int" THEN v.n ELSE IntOfText[v.s]

IsoDate(v) == v.t = "str" /\ v.s \in IsoDates

\* The invalid items of the claims: not an object, a required key missing,
\* an unparseable date or integer, the hour out of range, a string too long.
InvalidPriceItem(x) ==
    \/ ~ x.obj
    \/ \E k \in {"Sistema", "Fecha", "Hora", "Clave"} : x.f[k].t = "absent"
    \/ ~ IsoDate(x.f["Fecha"])
    \/ ~ IntLike(x.f["Hora"])
    \/ IntOf(x.f["Hora"]) \notin 0 .. 24
    \/ Len(PyStr(x.f["Sistema"])) > 3
    \/ Len(PyStr(x.f["Clave"])) > 20

ValidPriceItem(x) == ~ InvalidPriceItem(x)

InvalidCapItem(x) ==
    \/ ~ x.obj
    \/ \E k \in DOMAIN x.f : x.f[k].t = "absent"
    \/ ~ IsoDate(x.f["FechaOperacion"])
    \/ ~ IntLike(x.f["Horario"])
    \/ \E k \in CapFields : ~ IntLike(x.f[k])
    \/ IntOf(x.f["Horario"]) \notin 1 .. 24
    \/ Len(PyStr(x.f["Sistema"])) > 3
    \/ Len(PyStr(x.f["Enlace"])) > 32

ValidCapItem(x) == ~ InvalidCapItem(x)

\* The row a valid item asks the store to insert.
PriceRowOf(x) ==
    [Sistema |-> PyStr(x.f["Sistema"]), Fecha |-> DateOfIso(x.f["Fecha"].s),
     Hora |-> IntOf(x.f["Hora"]), Clave |-> PyStr(x.f["Clave"]),
     PML |-> Get(x, "PML"), Energia |-> Get(x, "Energia"),
     Congestion |-> Get(x, "Congestion"), Perdidas |-> Get(x, "Perdidas")]

CapRowOf(x) ==
    [Sistema |-> PyStr(x.f["Sistema"]),
     FechaOperacion |-> DateOfIso(x.f["FechaOperacion"].s),
     Enlace |-> PyStr(x.f["Enlace"]), Horario |-> IntOf(x.f["Horario"]),
     caps |-> [k \in CapFields |-> IntOf(x.f[k])]]

\* The rows the valid items of a routed request ask for, in the order of the
\* list.
ValidRows(e) ==
    IF e.ep = "price"
    THEN LET valid == SelectSeq(e.body, ValidPriceItem)
         IN  [i \in 1 .. Len(valid) |-> PriceRowOf(valid[i])]
    ELSE LET valid == SelectSeq(e.body, ValidCapItem)
         IN  [i \in 1 .. Len(valid) |-> CapRowOf(valid[i])]

CommitFailed(e) == e.resp.commit \in {"integrity", "data", "operational"}

\* ---- C4
\* C4: for every non-empty list sent to the price or the transfer-capacity
\* batch, summary.failed_validation is the number of invalid items, the rows
\* handed to the commit are exactly the rows of the valid items, and when the
\* commit succeeds summary.inserted is the number of valid items.
C4_ValidationAccounting ==
    (Routed(last) /\ last.body # <<>>) =>
        /\ last.resp.summary.total_records_received = Len(last.body)
        /\ last.resp.summary.failed_validation =
              Len(last.body) - Len(ValidRows(last))
        /\ last.resp.objects_to_insert = ValidRows(last)
        /\ Len(last.resp.errors) >= last.resp.summary.failed_validation
        /\ last.resp.commit = "ok" =>
              last.resp.summary.inserted = Len(ValidRows(last))

\* A list of one item whose Clave is too long and one valid item: one counted
\* as failed, one inserted.
C4_Witness ==
    /\ last.ep = "price" /\ Routed(last) /\ Len(last.body) = 2
    /\ \E i \in 1 .. 2 : last.body[i].obj /\ Len(PyStr(last.body[i].f["Clave"])) > 20
    /\ last.resp.summary.failed_validation = 1
    /\ last.resp.commit = "ok" /\ last.resp.summary.inserted = 1

\* ---- C5
\* C5: when the commit of a price or transfer-capacity batch raises a storage
\* error (a uniqueness violation, a value the column rejects, a storage
\* fault), summary.inserted is 0, summary.database_errors is the number of
\* rows that were pending, the response is 'error' with 500, and every table
\* is as it was before the request.
C5_FailedCommitRollsBack ==
    [][ (Routed(last') /\ now' = now + 1 /\ CommitFailed(last')) =>
          /\ last'.resp.summary.inserted = 0
          /\ last'.resp.summary.database_errors = Len(last'.resp.objects_to_insert)
          /\ last'.resp.objects_to_insert # <<>>
          /\ last'.resp.status = "error" /\ last'.resp.http = 500
          /\ pnx' = pnx /\ capacidad' = capacidad
      ]_vars

\* A price list of two rows failed on its second row, which is in the store
\* already; the store holds that one row and nothing of the list's first row.
C5_Witness ==
    /\ last.ep = "price" /\ last.resp.commit = "integrity"
    /\ last.resp.summary.database_errors = 2
    /\ last.resp.objects_to_insert[1].Hora # last.resp.objects_to_insert[2].Hora
    /\ Cardinality(pnx["pml_mda"]) = 1
    /\ \E r \in pnx["pml_mda"] : PnxKey(r) = PnxKey(last.resp.objects_to_insert[2])

\* ---- C7
\* C7: the price and transfer-capacity batches answer a non-empty list with no
\* invalid item and a successful commit with 'success' and a 2xx code, an
\* empty list with 'success' and 200, a list with an invalid item with
\* 'partial_success' and 207 when the commit of the other rows succeeds and
\* when no row is left to commit, and any failed commit with 'error' and 500.
C7_OutcomeClassification ==
    Routed(last) =>
        LET invalid == Len(last.body) - Len(ValidRows(last)) IN
        /\ (last.body # <<>> /\ invalid = 0 /\ last.resp.commit = "ok") =>
              /\ last.resp.status = "success"
              /\ last.resp.http \in 200 .. 299
        /\ last.body = <<>> =>
              /\ last.resp.status = "success" /\ last.resp.http = 200
        /\ (invalid > 0 /\ last.resp.commit \in {"ok", "none"}) =>
              /\ last.resp.status = "partial_success" /\ last.resp.http = 207
              /\ (last.resp.commit = "none") = (invalid = Len(last.body))
        /\ CommitFailed(last) =>
              /\ last.resp.status = "error" /\ last.resp.http = 500

\* A price list with one invalid item whose commit of the other row failed.
C7_Witness ==
    /\ last.ep = "price" /\ Routed(last) /\ CommitFailed(last)
    /\ Len(last.body) - Len(ValidRows(last)) = 1
    /\ last.resp.summary.failed_validation = 1
    /\ last.resp.status = "error"

\* ---- C10
\* An item that is a valid record but, possibly, for its hour.
HourOnly(e, x) ==
    /\ x.obj
    /\ IF e.ep = "price"
       THEN /\ \A k \in {"Sistema", "Fecha", "Hora", "Clave"} : x.f[k].t # "absent"
            /\ IsoDate(x.f["Fecha"]) /\ IntLike(x.f["Hora"])
            /\ Len(PyStr(x.f["Sistema"])) <= 3 /\ Len(PyStr(x.f["Clave"])) <= 20
       ELSE /\ \A k \in DOMAIN x.f : x.f[k].t # "absent"
            /\ IsoDate(x.f["FechaOperacion"]) /\ IntLike(x.f["Horario"])
            /\ \A k \in CapFields : IntLike(x.f[k])
            /\ Len(PyStr(x.f["Sistema"])) <= 3 /\ Len(PyStr(x.f["Enlace"])) <= 32

HourOf(e, x) == IF e.ep = "price" THEN IntOf(x.f["Hora"]) ELSE IntOf(x.f["Horario"])

RejectedAt(e, i) == \E k \in 1 .. Len(e.resp.errors) : e.resp.errors[k].index = i - 1

PendingHours(e) ==
    {IF e.ep = "price" THEN e.resp.objects_to_insert[k].Hora
     ELSE e.resp.objects_to_insert[k].Horario :
        k \in 1 .. Len(e.resp.objects_to_insert)}

DuplicatesStoredKey ==
    \/ /\ last'.ep = "price" /\ Routed(last')
       /\ \E i \in 1 .. Len(last'.body) :
            /\ ValidPriceItem(last'.body[i])
            /\ \E r \in pnx[Lower(last'.token)] :
                  PnxKey(r) = PnxKey(PriceRowOf(last'.body[i]))
    \/ /\ last'.ep = "capacity"
       /\ \E i \in 1 .. Len(last'.body) :
            /\ ValidCapItem(last'.body[i])
            /\ \E r \in capacidad : CapKey(r) = CapKey(CapRowOf(last'.body[i]))
    \/ /\ last'.ep = "bulk"
       /\ \E i \in 1 .. Len(last'.body) :
            /\ ValidDemandRecord(last'.body[i], DemandHoraMax)
            /\ RowsOf(demanda, last'.body[i]) # {}

\* C3 (as the spec states it): on the price, the transfer-capacity and the
\* demand bulk endpoint, a list holding a valid record whose business key is
\* that of a stored row fails at the commit and leaves every table as it was.
C3_DuplicateFailsWholeBatch ==
    [][ (now' = now + 1 /\ DuplicatesStoredKey) =>
          /\ CommitFailed(last')
          /\ pnx' = pnx /\ capacidad' = capacidad /\ demanda' = demanda
      ]_vars

\* ---- C6
\* The step resubmits the list of the exchange before it, whose commit failed
\* and was rolled back.
RetryAfterRollback ==
    /\ now' = now + 1
    /\ last'.ep = last.ep /\ last'.token = last.token /\ last'.body = last.body
    /\ \/ last.ep = "price" /\ Routed(last)
       \/ last.ep \in {"capacity", "bulk"}
    /\ CommitFailed(last)

EveryValidRowStored ==
    /\ last'.ep = "price" =>
          \A i \in 1 .. Len(last'.body) :
              ValidPriceItem(last'.body[i]) =>
                  \E r \in pnx'[Lower(last'.token)] :
                      PnxKey(r) = PnxKey(PriceRowOf(last'.body[i]))
    /\ last'.ep = "capacity" =>
          \A i \in 1 .. Len(last'.body) :
              ValidCapItem(last'.body[i]) =>
                  \E r \in capacidad' \ capacidad :
                      CapKey(r) = CapKey(CapRowOf(last'.body[i]))
    /\ last'.ep = "bulk" =>
          \A i \in 1 .. Len(last'.body) :
              ValidDemandRecord(last'.body[i], DemandHoraMax) =>
                  RowsOf(demanda', last'.body[i]) # {}

\* C6 (as the spec states it): once the commit of an insert-only list has
\* failed and been rolled back, the same list sent again, with no storage
\* fault and no conflicting row in the store, commits and inserts every valid
\* row of the list.
C6_RetryCommits ==
    [][ (RetryAfterRollback /\ last'.resp.commit # "operational"
            /\ ~ DuplicatesStoredKey) =>
          /\ last'.resp.commit = "ok"
          /\ EveryValidRowStored
      ]_vars

\* ---- C9
\* The step answers an empty JSON list on a batch endpoint.
EmptyListStep ==
    /\ now' = now + 1
    /\ last'.body = <<>>
    /\ \/ last'.ep = "price" /\ Routed(last')
       \/ last'.ep \in {"capacity", "bulk", "balance", "impexp"}

StoreUnchanged ==
    UNCHANGED <<demanda, pnx, capacidad, balance, impexp>>

\* The response says 'success' with 200 and counts no inserted row.
SuccessNothingInserted(e) ==
    /\ e.resp.http = 200
    /\ e.resp.status = "success"
    /\ IF e.ep = "bulk" THEN CountInserted(e.resp.results) = 0
       ELSE e.resp.summary.inserted = 0

DemandHourGiven(item) ==
    /\ item.obj
    /\ item.f["HoraOperacion"].t \in {"int", "str"}
    /\ Numeric(item.f["HoraOperacion"])

DemandHourOf(item) == Typed(item.f["HoraOperacion"]).n

\* C11 (as the spec states it): on every demand ingestion path HoraOperacion
\* ranges over 0..23.  A single-record request whose hour is outside 0..23 (24
\* included) is answered with a validation error (400) and writes nothing, a
\* valid record whose hour is in 0..23 is not refused, a bulk item whose hour
\* is outside 0..23 is reported as an error, and no request adds or changes a
\* row whose hour is outside 0..23.
C11_DemandHourRange ==
    [][ /\ (IsSingle(last') /\ now' = now + 1 /\ DemandHourGiven(last'.body[1])
              /\ DemandHourOf(last'.body[1]) \notin 0 .. 23)
            => /\ last'.resp.http = 400 /\ demanda' = demanda
        /\ (IsSingle(last') /\ now' = now + 1
              /\ ValidDemandRecord(last'.body[1], 23))
            => last'.resp.http # 400
        /\ (last'.ep = "bulk" /\ now' = now + 1)
            => \A i \in 1 .. Len(last'.body) :
                  (DemandHourGiven(last'.body[i])
                      /\ DemandHourOf(last'.body[i]) \notin 0 .. 23)
                  => last'.resp.results[i].status = "error"
        /\ \A r \in demanda' \ demanda : r.HoraOperacion \in 0 .. 23
      ]_vars

\* ---- C12
\* No two rows of the table agree on key.
KeyedBy(table, key(_)) ==
    \A r1 \in table, r2 \in table : key(r1) = key(r2) => r1 = r2

\* C12 (as the spec states it): in every reachable state no two stored rows
\* of one record variant share a business key: demand (FechaOperacion,
\* HoraOperacion, Gerencia), price (Sistema, Fecha, Hora, Clave) in each of
\* its tables, transfer capacity (Sistema, FechaOperacion, Enlace, Horario),
\* balance estimate (DiaOperacion, Sistema, Area, Hora, Liq, FechaPublicacion).
C12_BusinessKeysUnique ==
    /\ KeyedBy(demanda, DemandKey)
    /\ \A m \in DataTypeModels : KeyedBy(pnx[m], PnxKey)
    /\ KeyedBy(capacidad, CapKey)
    /\ KeyedBy(balance, BalanceKey)

\* ---- C13
\* A demand bulk item the validation must skip.
InvalidDemandItem(x) ==
    \/ ~ x.obj
    \/ \E k \in {"FechaOperacion", "HoraOperacion", "Gerencia"} :
          x.f[k].t \in {"absent", "null"}
    \/ ~ IsoDate(x.f["FechaOperacion"])
    \/ ~ IntLike(x.f["HoraOperacion"])
    \/ IntOf(x.f["HoraOperacion"]) \notin DemandHoraMin .. DemandHoraMax

\* A decimal measurement given as a number, a decimal numeral or no value.
DecimalLike(v) ==
    \/ v.t \in {"null", "absent", "int"}
    \/ v.t = "str" /\ (v.s \in DOMAIN IntOfText \/ v.s = "50.25")

\* A real-balance item that fails coercion or validation.
InvalidBalanceItem(x) ==
    \/ ~ x.obj
    \/ x.f["DiaOperacion"] \notin {JStr("01/03/2024"), JStr("02/03/2024")}
    \/ ~ IsoDate(x.f["FechaPublicacion"])
    \/ ~ IntLike(x.f["Hora"]) \/ ~ IntLike(x.f["Liq"])
    \/ x.f["Sistema"].t \in {"absent", "null"}
    \/ x.f["Area"].t \in {"absent", "null"}

ValidBalanceItem(x) ==
    /\ ~ InvalidBalanceItem(x)
    /\ \A k \in BalanceDecimalFields :
          DecimalLike(x.f[k])
          \/ (k = "Intercambio_Neto_Entre_Gerencias_MWh" /\ x.f[k] = JStr("---"))

\* An import/export item that fails coercion or validation.
InvalidImpExpItem(x) ==
    \/ ~ x.obj
    \/ ~ IsoDate(x.f["DiaOperacion"]) \/ ~ IsoDate(x.f["Fecha_Publicacion"])
    \/ ~ IntLike(x.f["HoraOperacion"])
    \/ \E k \in {"Sistema", "Liquidacion", "EnlaceInternacional"} :
          x.f[k].t \in {"absent", "null"}

ValidImpExpItem(x) ==
    /\ ~ InvalidImpExpItem(x)
    /\ \A k \in ImpExpDecimalFields : DecimalLike(x.f[k])

InvalidItem(e, x) ==
    CASE e.ep = "price" -> InvalidPriceItem(x)
      [] e.ep = "capacity" -> InvalidCapItem(x)
      [] e.ep = "bulk" -> InvalidDemandItem(x)
      [] e.ep = "balance" -> InvalidBalanceItem(x)
      [] OTHER -> InvalidImpExpItem(x)

IsGuarded(e) == e.ep \in {"balance", "impexp"}

\* The step answers a list, on a batch endpoint, that holds an item failing
\* validation, and no storage error or publication-date guard ends it.
InvalidItemStep ==
    /\ now' = now + 1
    /\ \/ last'.ep = "price" /\ Routed(last')
       \/ last'.ep \in {"capacity", "bulk", "balance", "impexp"}
    /\ \E i \in 1 .. Len(last'.body) : InvalidItem(last', last'.body[i])
    /\ ~ IsGuarded(last') => ~ CommitFailed(last')
    /\ IsGuarded(last') =>
          /\ last'.body[1].obj
          /\ last'.resp.raised \notin
                {"IntegrityError", "Exception", "PublicationDateExistsError"}

\* Every valid record of a guarded list has its row among the rows the step
\* added.
GuardedValidRowsStored ==
    /\ last'.ep = "balance" =>
          \A i \in 1 .. Len(last'.body) :
              ValidBalanceItem(last'.body[i]) =>
                  \E r \in balance' \ balance :
                      /\ r.Hora = IntOf(last'.body[i].f["Hora"])
                      /\ r.Liq = IntOf(last'.body[i].f["Liq"])
                      /\ r.Area = last'.body[i].f["Area"].s
    /\ last'.ep = "impexp" =>
          \A i \in 1 .. Len(last'.body) :
              ValidImpExpItem(last'.body[i]) =>
                  \E r \in impexp' \ impexp :
                      r.HoraOperacion = IntOf(last'.body[i].f["HoraOperacion"])

UpsertFoundStep ==
    /\ SingleStep
    /\ RowsOf(demanda, last'.body[1]) # {}

\* The non-key data fields in which the incoming record differs, as typed
\* values, from the stored row; Sistema counts when the record gives one.
DiffersFromRow(r, item) ==
    {k \in MeasurementFields : r[k] # Typed(item.f[k])}
        \cup {k \in {"Sistema"} : item.f[k].t = "str" /\ r[k] # item.f[k].s}

\* The stored row agrees with the incoming record on every non-key data field.
RowCarries(r, item) ==
    /\ \A k \in MeasurementFields : r[k] = Typed(item.f[k])
    /\ item.f["Sistema"].t = "str" => r.Sistema = item.f["Sistema"].s

\* C14 (as the spec states it): when the single-record upsert finds a row
\* with the incoming business key and the incoming record differs from it in
\* one of Demanda, Generacion, Pronostico, Enlace or Sistema, the answer is
\* 'updated' and the row afterwards carries the incoming value of each of
\* these fields; 'conflict' is answered only when none of them differs.
C14_ChangeDetectionCoversPayload ==
    [][ UpsertFoundStep =>
          \A r \in RowsOf(demanda, last'.body[1]) :
              /\ DiffersFromRow(r, last'.body[1]) # {} =>
                    /\ last'.resp.action = "updated"
                    /\ \A q \in RowsOf(demanda', last'.body[1]) :
                          RowCarries(q, last'.body[1])
              /\ last'.resp.status = "conflict" =>
                    DiffersFromRow(r, last'.body[1]) = {}
      ]_vars

\* ---- C15
\* The incoming record coerces, field by field, to what the row stores.
CoercesToRow(r, item) == \A k \in MeasurementFields : r[k] = Typed(item.f[k])

\* C15 (as the spec states it): the single-record upsert compares the
\* incoming measurement fields with the stored ones after integer coercion,
\* so a record whose fields coerce to the stored values ("1500" against a
\* stored 1500) is answered 'conflict' and nothing is written, and a
\* submission repeated unchanged is never answered 'updated'.
C15_TypedComparison ==
    [][ /\ UpsertFoundStep =>
              \A r \in RowsOf(demanda, last'.body[1]) :
                  CoercesToRow(r, last'.body[1]) =>
                      /\ last'.resp.status = "conflict"
                      /\ last'.resp.http = 409
                      /\ demanda' = demanda
        /\ (SingleStep /\ last.ep = last'.ep /\ last'.body = last.body
                /\ last.resp.status \in {"success", "conflict"})
              => last'.resp.action # "updated"
      ]_vars

\* ---- C16
\* C16: when the single-record upsert answers 'conflict' (a row with the
\* incoming business key exists and the compared fields are identical), the
\* demand table after the request is the table before it, row for row, with
\* the same payload, id and modification time, no commit is issued, and no
\* other table changes.
C16_ConflictWritesNothing ==
    [][ (IsSingle(last') /\ now' = now + 1 /\ last'.resp.status = "conflict") =>
          /\ demanda' = demanda
          /\ last'.resp.commit = "none"
          /\ last'.resp.http = 409 /\ last'.resp.action = "none"
          /\ RowsOf(demanda, last'.body[1]) # {}
          /\ UNCHANGED <<pnx, capacidad, balance, impexp>>
      ]_vars

\* A resubmission was answered 'conflict' at time 1 and the row still has the
\* modification time of its insertion at time 0.
C16_Witness ==
    /\ IsSingle(last) /\ last.resp.status = "conflict" /\ now = 2
    /\ \E r \in RowsOf(demanda, last.body[1]) :
          /\ r.id = 1 /\ r.FechaCreacion = 0 /\ r.FechaModificacion = 0
    /\ Cardinality(demanda) = 1

\* ---- C17
\* The rows of a table that carry an id no row had before the step.
Added(before, after, id(_)) ==
    {r \in after : \A q \in before : id(q) # id(r)}

LowerId(r) == r.id
UpperId(r) == r.Id

\* C17 (as the spec states it): every row a request writes has its id, its
\* creation time and its modification time from the store: a new row gets an
\* id no row has and the store's clock for both times, an updated demand row
\* gets the store's clock for its modification time, whatever the request
\* body holds under FechaCreacion, FechaActualizacion, Fecha_Creacion or
\* Fecha_Actualizacion.
C17_MetadataStorageAssigned ==
    [][ /\ \A r \in Added(demanda, demanda', LowerId) :
              r.FechaCreacion = now /\ r.FechaModificacion = now
        /\ \A r \in demanda' \ demanda :
              r.FechaModificacion = now
        /\ \A r \in Added(capacidad, capacidad', UpperId) :
              r.FechaCreacion = now /\ r.FechaActualizacion = now
        /\ \A r \in Added(balance, balance', UpperId) :
              r.FechaCreacion = now /\ r.FechaActualizacion = now
        /\ \A r \in Added(impexp, impexp', UpperId) :
              r.Fecha_Creacion = now /\ r.Fecha_Actualizacion = now
        /\ Added(balance, balance', UpperId) = balance' \ balance
        /\ Added(impexp, impexp', UpperId) = impexp' \ impexp
        /\ Added(capacidad, capacidad', UpperId) = capacidad' \ capacidad
      ]_vars

\* ---- C18
\* Every row of the table before the step is a row of the table after it.
Kept(before, after) == before \subseteq after

\* C18: no step removes a row or changes a row's id or business key.  Every
\* price, transfer-capacity, real-balance and import/export row stays as it
\* is; a demand row stays under its id with its business key and creation
\* time, and it changes at all only in a step of the single-record upsert
\* that reports 'updated'.
C18_RowsPermanent ==
    [][ /\ \A r \in demanda :
              \E q \in demanda' :
                  /\ q.id = r.id /\ DemandKey(q) = DemandKey(r)
                  /\ q.FechaCreacion = r.FechaCreacion
                  /\ q # r => /\ IsSingle(last') /\ now' = now + 1
                              /\ last'.resp.action = "updated"
                              /\ DemandKeyOf(last'.body[1]) = DemandKey(r)
        /\ \A m \in DataTypeModels : Kept(pnx[m], pnx'[m])
        /\ Kept(capacidad, capacidad')
        /\ Kept(balance, balance')
        /\ Kept(impexp, impexp')
      ]_vars

\* The one demand row was inserted at time 0 and updated at time 1, and it
\* still has the id and the creation time of its insertion.
C18_Witness ==
    /\ IsSingle(last) /\ last.resp.action = "updated" /\ now = 2
    /\ Cardinality(demanda) = 1
    /\ \A r \in demanda :
          /\ r.id = 1 /\ r.FechaCreacion = 0 /\ r.FechaModificacion = 1
          /\ DemandKey(r) = DemandKeyOf(last.body[1])

\* ---- C19
\* The data type a token names when letter case is ignored, "" when none.
NamedDataType(token) ==
    CASE token \in {"PML_MDA", "pml_mda"} -> "pml_mda"
      [] token \in {"Pnd_Mtr", "pnd_mtr"} -> "pnd_mtr"
      [] OTHER -> ""

PriceStep == last'.ep = "price" /\ now' = now + 1

\* The request was refused before any storage interaction.
RefusedUntouched(http) ==
    /\ last'.resp.http \in http /\ last'.resp.status = "error"
    /\ last'.resp.commit = "none"
    /\ StoreUnchanged

\* C19: the price batch endpoint answers 404 to a data-type token that names
\* none of pnd_mda, pml_mda, pml_mtr, pnd_mtr when case is ignored, 415 to a
\* body that is not JSON and 400 to a JSON body that does not parse or is not
\* a list; in each case nothing is read from or written to the store, no
\* commit or rollback is issued and every table is unchanged.  A token that
\* differs from a valid one only in letter case is accepted: its list is
\* processed against the table of that data type.
C19_ShortCircuit ==
    [][ PriceStep =>
          /\ NamedDataType(last'.token) = "" => RefusedUntouched({404})
          /\ (NamedDataType(last'.token) # "" /\ last'.payload = "not_json")
                => RefusedUntouched({415})
          /\ (NamedDataType(last'.token) # ""
                /\ last'.payload \in {"bad_json", "not_list"})
                => RefusedUntouched({400})
          /\ (NamedDataType(last'.token) # "" /\ last'.payload = "list") =>
                /\ last'.resp.http \notin {404, 415}
                /\ \A m \in DataTypeModels \ {NamedDataType(last'.token)} :
                      pnx'[m] = pnx[m]
                /\ (last'.resp.commit = "ok" /\ last'.body # <<>>
                      /\ \A i \in 1 .. Len(last'.body) :
                            ValidPriceItem(last'.body[i]))
                      => pnx'[NamedDataType(last'.token)]
                             # pnx[NamedDataType(last'.token)]
      ]_vars

\* A list sent under the token PML_MDA has been stored in the pml_mda table
\* at time 0, and a request whose body is not a list has then been answered
\* 400 and has left that row alone.
C19_Witness ==
    /\ last.ep = "price" /\ last.token = "PML_MDA" /\ last.payload = "not_list"
    /\ last.resp.http = 400 /\ now = 2
    /\ Cardinality(pnx["pml_mda"]) = 1

\* ---- C20
\* A string that is no numeral: "abc", the empty string.
NonNumeric(v) == v.t = "str" /\ ~ DecimalLike(v)

PriceDecimalFields == {"PML", "Energia", "Congestion", "Perdidas"}

\* A step that answers a list of one price record whose key fields are valid
\* and whose key no row has, without a storage fault.
OnePriceRecordStep ==
    /\ PriceStep /\ Routed(last') /\ Len(last'.body) = 1
    /\ ValidPriceItem(last'.body[1])
    /\ last'.resp.commit # "operational"
    /\ \A r \in pnx[Lower(last'.token)] :
          PnxKey(r) # PnxKey(PriceRowOf(last'.body[1]))

\* A step that answers a list of one real-balance record whose mandatory
\* fields are valid, without a storage fault or a stored publication date.
OneBalanceRecordStep ==
    /\ last'.ep = "balance" /\ now' = now + 1 /\ Len(last'.body) = 1
    /\ ~ InvalidBalanceItem(last'.body[1])
    /\ IntOf(last'.body[1].f["Liq"]) \in BalanceLiqMin .. BalanceLiqMax
    /\ last'.resp.raised \notin
          {"IntegrityError", "Exception", "PublicationDateExistsError"}

\* C20 (as the spec states it): a non-numeric or empty string in an optional
\* decimal field (PML, Energia, Congestion, Perdidas of a price record; the
\* _MWh fields of a real-balance record) is stored as no value: the record
\* passes validation, the commit succeeds and the row holds null in that
\* field.
C20_LenientDecimals ==
    [][ /\ OnePriceRecordStep =>
              /\ last'.resp.commit = "ok"
              /\ \E r \in pnx'[Lower(last'.token)] :
                    /\ PnxKey(r) = PnxKey(PriceRowOf(last'.body[1]))
                    /\ \A k \in PriceDecimalFields :
                          NonNumeric(last'.body[1].f[k]) => r[k] = JNull
        /\ OneBalanceRecordStep =>
              /\ last'.resp.http = 201
              /\ \E r \in balance' \ balance :
                    \A k \in BalanceDecimalFields :
                        (NonNumeric(last'.body[1].f[k])
                            /\ last'.body[1].f[k] # JStr("---"))
                          => r.decimals[k] = JNull
      ]_vars

\* ---- C21
\* The item gives a string longer than its column to one of the length-bound
\* fields of the endpoint.
OverLength(e, x) ==
    /\ x.obj
    /\ CASE e.ep = "price" ->
               \/ x.f["Sistema"].t = "str" /\ Len(x.f["Sistema"].s) > 3
               \/ x.f["Clave"].t = "str" /\ Len(x.f["Clave"].s) > 20
         [] e.ep = "capacity" ->
               \/ x.f["Sistema"].t = "str" /\ Len(x.f["Sistema"].s) > 3
               \/ x.f["Enlace"].t = "str" /\ Len(x.f["Enlace"].s) > 32
         [] OTHER ->
               \/ x.f["Gerencia"].t = "str" /\ Len(x.f["Gerencia"].s) > 20
               \/ x.f["Sistema"].t = "str" /\ Len(x.f["Sistema"].s) > 10

\* C21 (as the spec states it): on the price, the transfer-capacity and the
\* demand endpoints a record with an over-length string field is a validation
\* failure: the single-record endpoint answers 400 without a commit, a batch
\* reports the item as rejected and does not queue it, so the value never
\* reaches a commit.
C21_LengthValidated ==
    [][ (now' = now + 1 /\ (IsSingle(last') \/ last'.ep = "bulk" \/ Routed(last'))) =>
          \A i \in 1 .. Len(last'.body) :
              OverLength(last', last'.body[i]) =>
                  /\ IsSingle(last') =>
                        last'.resp.http = 400 /\ last'.resp.commit = "none"
                  /\ last'.ep = "bulk" => last'.resp.results[i].status = "error"
                  /\ Routed(last') => RejectedAt(last', i)
      ]_vars

\* ---- C22
\* The valid items of a demand bulk or price list, by position, and the
\* business key each asks for.
QueuedItems(e) ==
    {i \in 1 .. Len(e.body) :
        IF e.ep = "bulk" THEN ValidDemandRecord(e.body[i], DemandHoraMax)
        ELSE ValidPriceItem(e.body[i])
             /\ \A k \in PriceDecimalFields : DecimalLike(e.body[i].f[k])}

ItemKey(e, i) ==
    IF e.ep = "bulk" THEN DemandKeyOf(e.body[i])
    ELSE PnxKey(PriceRowOf(e.body[i]))

\* A step that answers a demand bulk or price list in which two valid items
\* carry one business key and every valid item has storable values.
CollisionStep ==
    /\ now' = now + 1
    /\ last'.ep = "bulk" \/ (last'.ep = "price" /\ Routed(last'))
    /\ \E i \in QueuedItems(last'), j \in QueuedItems(last') :
          i # j /\ ItemKey(last', i) = ItemKey(last', j)
    /\ \A i \in 1 .. Len(last'.body) :
          last'.body[i].obj /\ i \notin QueuedItems(last') =>
              IF last'.ep = "bulk" THEN InvalidDemandItem(last'.body[i])
              ELSE InvalidPriceItem(last'.body[i])

\* C22: when two valid items of one demand bulk or price list carry the same
\* business key, the commit fails on the uniqueness violation and is rolled
\* back: no table changes, no item of the list is stored, every queued item
\* is reported as failed (demand bulk: status 'error', action
\* 'insert_failed_duplicate', answer 409; price: database_errors counts every
\* queued record, inserted is 0, answer 500) and a batch-level failure entry
\* of index -1 is added.
C22_CollisionFailsBatch ==
    [][ CollisionStep =>
          /\ last'.resp.commit = "integrity"
          /\ StoreUnchanged
          /\ last'.ep = "bulk" =>
                /\ last'.resp.http = 409
                /\ last'.resp.summary.successfully_inserted = 0
                /\ \A i \in QueuedItems(last') :
                      /\ last'.resp.results[i].status = "error"
                      /\ last'.resp.results[i].action = "insert_failed_duplicate"
                /\ Len(last'.resp.results) = Len(last'.body) + 1
                /\ last'.resp.results[Len(last'.body) + 1].original_index = -1
          /\ last'.ep = "price" =>
                /\ last'.resp.http = 500 /\ last'.resp.status = "error"
                /\ last'.resp.summary.inserted = 0
                /\ last'.resp.summary.database_errors =
                      Cardinality(QueuedItems(last'))
                /\ \E k \in 1 .. Len(last'.resp.errors) :
                      last'.resp.errors[k].index = -1
      ]_vars

\* A demand bulk list of three valid records, the first and the last with one
\* key and the second with another, was answered 409 and nothing of it is
\* stored.
C22_Witness ==
    /\ last.ep = "bulk" /\ Len(last.body) = 3
    /\ QueuedItems(last) = {1, 2, 3}
    /\ ItemKey(last, 1) = ItemKey(last, 3) /\ ItemKey(last, 1) # ItemKey(last, 2)
    /\ last.resp.http = 409 /\ last.resp.commit = "integrity"
    /\ demanda = {}

\* ---- C23
\* The publication date of the first item of a guarded list, when it is an
\* object with a date in YYYY-MM-DD form.
PubField(e) == IF e.ep = "balance" THEN "FechaPublicacion" ELSE "Fecha_Publicacion"

FirstHasPubDate(e) ==
    /\ e.body # <<>> /\ e.body[1].obj
    /\ IsoDate(e.body[1].f[PubField(e)])

FirstPubDate(e) == DateOfIso(e.body[1].f[PubField(e)].s)

\* The table holds a row of the publication date of the list's first item.
PubDateStored(e) ==
    IF e.ep = "balance"
    THEN \E r \in balance : r.FechaPublicacion = FirstPubDate(e)
    ELSE \E r \in impexp : r.Fecha_Publicacion = FirstPubDate(e)

\* C23: when the real-balance (or import/export) table already holds a row
\* whose publication date is the publication date of the first item of the
\* list, the request is refused with PublicationDateExistsError, answered
\* 409, whatever the other fields and the other items of the list are (no
\* item is parsed: an invalid item does not turn the answer into 400), no
\* record is created and no table changes.
C23_PublicationDateGuard ==
    [][ (IsGuarded(last') /\ now' = now + 1 /\ FirstHasPubDate(last')
            /\ PubDateStored(last')) =>
          /\ last'.resp.raised = "PublicationDateExistsError"
          /\ last'.resp.http = 409 /\ last'.resp.created = 0
          /\ StoreUnchanged
      ]_vars

\* A real-balance list whose second item is invalid was answered 409, because
\* a row of the first item's publication date was stored by an earlier
\* request.
C23_Witness ==
    /\ last.ep = "balance" /\ Len(last.body) = 2
    /\ InvalidBalanceItem(last.body[2])
    /\ FirstHasPubDate(last) /\ PubDateStored(last)
    /\ last.resp.http = 409 /\ last.resp.raised = "PublicationDateExistsError"
    /\ Cardinality(balance) = 1

\* ---- C24
\* Worker w ends its request in this step.
Ends(w) == inflight[w].pc = "looked" /\ inflight'[w].pc = "idle"

\* Worker w ends without a storage fault a request whose lookup found no row
\* of its business key.
EndsAfterMiss(w) ==
    /\ Ends(w) /\ inflight[w].found = {}
    /\ ValidDemandRecord(inflight[w].body[1], DemandHoraMax)
    /\ last'.resp.commit # "operational"

\* C24: of the single-record upserts that looked up one absent business key
\* before any of them committed, the first to commit reports 'inserted' and
\* its row is stored; each later one has its INSERT refused by the unique
\* constraint, is rolled back and reports an error (never 'inserted' or
\* 'updated'), and the table is left as the winner wrote it: one row for the
\* key, with the winner's payload.
C24_ConcurrentInsertOneWinner ==
    [][ \A w \in Workers : EndsAfterMiss(w) =>
          /\ last'.body = inflight[w].body
          /\ IF RowsOf(demanda, inflight[w].body[1]) = {}
             THEN /\ last'.resp.action = "inserted" /\ last'.resp.http = 201
                  /\ \E r \in demanda' :
                        /\ demanda' = demanda \cup {r}
                        /\ DemandKey(r) = DemandKeyOf(inflight[w].body[1])
                        /\ \A k \in MeasurementFields :
                              r[k] = Typed(inflight[w].body[1].f[k])
             ELSE /\ last'.resp.status = "error"
                  /\ last'.resp.action \notin {"inserted", "updated"}
                  /\ last'.resp.commit = "integrity"
                  /\ demanda' = demanda
          /\ Cardinality(RowsOf(demanda', inflight[w].body[1])) = 1
      ]_vars

\* Two workers looked up the same absent key; both have ended, the second
\* with an error, and the one row of the key holds the other request's
\* Demanda.
C24_Witness ==
    /\ \A w \in Workers : inflight[w].pc = "idle"
    /\ now = 2 /\ last.ep = "single"
    /\ last.resp.status = "error" /\ last.resp.commit = "integrity"
    /\ Cardinality(demanda) = 1
    /\ \A r \in demanda :
          /\ DemandKey(r) = DemandKeyOf(last.body[1])
          /\ r.Demanda # Typed(last.body[1].f["Demanda"])

\* ---- C25
\* C25: no call to create_demanda_records or create_import_export_records
\* adds a row whose publication date some stored row already carries, so all
\* rows of one publication date come from a single call.
C25_PublicationDateExclusive ==
    [][ /\ \A r \in balance' \ balance :
              ~ \E q \in balance : q.FechaPublicacion = r.FechaPublicacion
        /\ \A r \in impexp' \ impexp :
              ~ \E q \in impexp : q.Fecha_Publicacion = r.Fecha_Publicacion
      ]_vars

\* ---- C26
\* The rows the step added to the table of the guarded endpoint it answered.
GuardedAdded ==
    IF last'.ep = "balance" THEN balance' \ balance ELSE impexp' \ impexp

\* Row r is the row of item x of a list posted to endpoint ep.
RowOfItem(ep, r, x) ==
    IF ep = "balance"
    THEN /\ r.Hora = PyInt(x.f["Hora"]).v /\ r.Liq = PyInt(x.f["Liq"]).v
         /\ r.FechaPublicacion = StrptimeIso(x.f["FechaPublicacion"]).v
    ELSE /\ r.HoraOperacion = PyInt(x.f["HoraOperacion"]).v
         /\ r.Fecha_Publicacion = StrptimeIso(x.f["Fecha_Publicacion"]).v
         /\ r.decimals["Importacion_Total_MWh"]
               = PyDecimal(x.f["Importacion_Total_MWh"]).v

\* C26: a real-balance or import/export request either stores one row for
\* every item of its list and answers 201 with that many records, or fails
\* (publication date exists, validation error, integrity or other storage
\* error) and leaves every table as it was; no other row is touched and no
\* proper non-empty part of the list is stored.
C26_GuardedAllOrNothing ==
    [][ (IsGuarded(last') /\ now' = now + 1) =>
          /\ balance \subseteq balance' /\ impexp \subseteq impexp'
          /\ IF last'.resp.http = 201
             THEN /\ last'.resp.raised = "none"
                  /\ last'.resp.created = Len(last'.body)
                  /\ Cardinality(GuardedAdded) = Len(last'.body)
                  /\ \A i \in 1 .. Len(last'.body) :
                        \E r \in GuardedAdded : RowOfItem(last'.ep, r, last'.body[i])
                  /\ last'.ep = "balance" => impexp' = impexp
                  /\ last'.ep = "impexp" => balance' = balance
             ELSE /\ last'.resp.created = 0
                  /\ StoreUnchanged
      ]_vars

\* A two-item real-balance list whose first item is valid was refused at the
\* commit by a constraint on its second item, and the table is still empty.
C26_Witness ==
    /\ last.ep = "balance" /\ Len(last.body) = 2 /\ now = 1
    /\ ValidBalanceItem(last.body[1]) /\ ~ InvalidBalanceItem(last.body[2])
    /\ last.resp.raised = "IntegrityError" /\ last.resp.http = 409
    /\ balance = {}

\* ---- C27
\* The step answers a request to an insert-only batch endpoint.
InsertOnlyStep ==
    now' = now + 1 /\ last'.ep \in {"price", "capacity", "bulk"}

\* The rows the step added to the table its endpoint writes.
InsertOnlyAdded ==
    CASE last'.ep = "price" ->
            IF Lower(last'.token) \in DataTypeModels
            THEN pnx'[Lower(last'.token)] \ pnx[Lower(last'.token)]
            ELSE {}
      [] last'.ep = "capacity" -> capacidad' \ capacidad
      [] OTHER -> demanda' \ demanda

\* The inserted count of the response, 0 for a response without summary.
ReportedInserted(e) ==
    CASE e.ep = "bulk" ->
            IF e.resp.has_summary THEN e.resp.summary.successfully_inserted ELSE 0
      [] Routed(e) -> e.resp.summary.inserted
      [] OTHER -> 0

\* C27: a request to the price, the transfer-capacity or the demand bulk
\* endpoint adds as many rows as its response counts as inserted
\* (summary.inserted, summary.successfully_inserted) and removes or changes
\* none; a response to a failed commit (status 'error', 409 or 500 on the
\* bulk endpoint) comes with no row added.
C27_ReportedCountsMatchStore ==
    [][ InsertOnlyStep =>
          /\ Cardinality(InsertOnlyAdded) = ReportedInserted(last')
          /\ demanda \subseteq demanda' /\ capacidad \subseteq capacidad'
          /\ \A m \in DataTypeModels :
                /\ pnx[m] \subseteq pnx'[m]
                /\ (last'.ep = "price" /\ m = Lower(last'.token)) \/ pnx'[m] = pnx[m]
          /\ last'.ep # "bulk" => demanda' = demanda
          /\ last'.ep # "capacity" => capacidad' = capacidad
          /\ UNCHANGED <<balance, impexp>>
          /\ (CommitFailed(last') \/ last'.resp.http \in {409, 500}
                \/ (last'.ep # "bulk" /\ last'.resp.status = "error"))
                => (StoreUnchanged /\ ReportedInserted(last') = 0)
      ]_vars

\* A two-item bulk list with one invalid record was answered with
\* successfully_inserted 1, and the demand table holds that one row.
C27_Witness ==
    /\ last.ep = "bulk" /\ Len(last.body) = 2 /\ now = 1
    /\ last.resp.has_summary
    /\ last.resp.summary.successfully_inserted = 1
    /\ last.resp.summary.records_with_validation_errors = 1
    /\ Cardinality(demanda) = 1

\* ---- C28
\* The last response carries the summary of an insert-only batch handler.
HasBatchSummary(e) ==
    \/ Routed(e) /\ e.ep \in {"price", "capacity"}
    \/ e.ep = "bulk" /\ e.resp.has_summary

\* C28: in every summary of the price and the transfer-capacity endpoint
\* total_records_received = inserted + failed_validation + database_errors,
\* and inserted and database_errors are never both non-zero; in every summary
\* of the demand bulk endpoint total_records_received = successfully_inserted
\* + records_with_validation_errors + failed_or_rolled_back; the total is the
\* length of the list and no count is negative.
C28_SummaryAccounting ==
    HasBatchSummary(last) =>
        LET s == last.resp.summary IN
        /\ s.total_records_received = Len(last.body)
        /\ IF last.ep = "bulk"
           THEN /\ s.total_records_received =
                      s.successfully_inserted + s.records_with_validation_errors
                          + s.failed_or_rolled_back
                /\ s.successfully_inserted >= 0
                /\ s.records_with_validation_errors >= 0
                /\ s.failed_or_rolled_back >= 0
                /\ s.records_attempted_insert >= 0
                /\ s.successfully_inserted = 0 \/ s.failed_or_rolled_back = 0
           ELSE /\ s.total_records_received =
                      s.inserted + s.failed_validation + s.database_errors
                /\ s.inserted = 0 \/ s.database_errors = 0
                /\ s.inserted >= 0 /\ s.failed_validation >= 0
                /\ s.database_errors >= 0

\* A two-item price list with one invalid record whose commit failed: the
\* summary counts one validation failure and one database error.
C28_Witness ==
    /\ last.ep = "price" /\ Routed(last) /\ Len(last.body) = 2
    /\ last.resp.summary.failed_validation = 1
    /\ last.resp.summary.database_errors = 1
    /\ last.resp.summary.inserted = 0

\* ---- C29
\* The entries of the results that belong to item index (0-based).
EntriesOf(results, index) ==
    {i \in 1 .. Len(results) : results[i].original_index = index}

\* The entries of the results of records that were queued for insert: those
\* that are not skipped and not the batch entry.
QueuedEntries(results) ==
    {i \in 1 .. Len(results) :
        /\ results[i].original_index # -1
        /\ results[i].action \notin {"skipped_invalid_format", "skipped_missing_keys",
                                     "skipped_invalid_key_format"}}

\* C29: in the response of the demand bulk endpoint to a non-empty list of n
\* items, every index 0 .. n-1 has exactly one entry; no entry is left
\* 'pending_insert' / 'insert_queued'; the entries of the queued records all
\* carry one final outcome (all success/inserted, or all error with one
\* failure action); and the batch entry with original_index -1 is there, once,
\* exactly when the commit raised.
C29_BulkResultLifecycle ==
    (last.ep = "bulk" /\ last.resp.has_summary) =>
        LET results == last.resp.results IN
        /\ \A index \in 0 .. (Len(last.body) - 1) :
              Cardinality(EntriesOf(results, index)) = 1
        /\ \A i \in 1 .. Len(results) :
              /\ results[i].original_index \in -1 .. (Len(last.body) - 1)
              /\ results[i].status # "pending_insert"
              /\ results[i].action # "insert_queued"
        /\ \A i \in QueuedEntries(results), j \in QueuedEntries(results) :
              /\ results[i].status = results[j].status
              /\ results[i].action = results[j].action
        /\ \A i \in QueuedEntries(results) :
              \/ results[i].status = "success" /\ results[i].action = "inserted"
              \/ /\ results[i].status = "error"
                 /\ results[i].action \in {"insert_failed_duplicate",
                                           "insert_failed_db_error"}
        /\ Cardinality(QueuedEntries(results)) = Len(last.resp.session)
        /\ Cardinality(EntriesOf(results, -1)) =
              IF CommitFailed(last) THEN 1 ELSE 0
        /\ CommitFailed(last) <=>
              \E i \in QueuedEntries(results) : results[i].status = "error"

\* A bulk list of two valid records whose commit was refused: both entries
\* read error / insert_failed_duplicate and the batch entry follows them.
C29_Witness ==
    /\ last.ep = "bulk" /\ last.resp.has_summary /\ Len(last.body) = 2
    /\ Len(last.resp.results) = 3
    /\ last.resp.results[1].action = "insert_failed_duplicate"
    /\ last.resp.results[2].action = "insert_failed_duplicate"
    /\ last.resp.results[3].original_index = -1
    /\ last.resp.commit = "integrity"

\* ---- C30
\* A price record that carries null in a business-key field.
NullKeyItem(x) ==
    x.obj /\ \E k \in PnxRequiredKeys : x.f[k].t = "null"

\* C30: on the price endpoint a record with null in Sistema, Fecha, Hora or
\* Clave is counted in failed_validation, has an error entry for its index
\* and is not handed to the commit, so no price row is stored for it.
C30_NullKeysRejected ==
    [][ (last'.ep = "price" /\ Routed(last') /\ now' = now + 1) =>
          LET nulls == {i \in 1 .. Len(last'.body) : NullKeyItem(last'.body[i])}
          IN  /\ last'.resp.summary.failed_validation >= Cardinality(nulls)
              /\ \A i \in nulls :
                    \E j \in 1 .. Len(last'.resp.errors) :
                        last'.resp.errors[j].index = i - 1
              /\ Len(last'.resp.objects_to_insert)
                    <= Len(last'.body) - Cardinality(nulls)
              /\ Cardinality(pnx'[Lower(last'.token)] \ pnx[Lower(last'.token)])
                    <= Len(last'.body) - Cardinality(nulls)
      ]_vars

====
